---- MODULE Spec2Model ----
(***************************************************************************)
(* Kropki Sudoku solver: the Board (src/models/board.py), the constraint   *)
(* evaluator (src/utils/validators.py), the verifier's checks              *)
(* (src/utils/verifier.py) and the backtracking search engine              *)
(* (src/solver/solver.py), with the recursion of KropkiSolver.backtrack    *)
(* unfolded into an explicit stack of frames.                              *)
(***************************************************************************)
EXTENDS Integers, Sequences, FiniteSets, TLC

VARIABLES
    board,                  \* the Board the engine works on: grid and both dot matrices
    puzzle,                 \* the Board as it was handed to solve (kept for comparison)
    use_forward_checking,   \* KropkiSolver.use_forward_checking
    selection,              \* variable-selection variant: "mrv" or "plain"
    assignments,            \* KropkiSolver.assignments
    backtracks,             \* KropkiSolver.backtracks
    stack,                  \* active backtrack() frames, innermost last
    result,                 \* "none", or what the frame that returned last returned:
                            \* "True", "False", or "ValueError" when it raised
    runs,                   \* outcomes of the solve calls that have returned
    call,                   \* the last call made on the Board or the I/O functions
                            \* by a client, with its outcome
    files,                  \* names of the input files of a batch, in processing order
    log,                    \* what process_file reported for each file processed
    output,                 \* the output files: for each index, the text written or NoFile
    pc                      \* where main / process_file stands

\* the state of a client of the Board and of the batch driver: the search
\* itself never touches it
driver == <<call, files, log, output, pc>>

vars == <<board, puzzle, use_forward_checking, selection, assignments,
          backtracks, stack, result, runs, call, files, log, output, pc>>

---------------------------------------------------------------------------
(* src/utils/constants.py *)

GRID_SIZE == 9
BLOCK_SIZE == 3
MIN_VALUE == 1
MAX_VALUE == 9
VALID_DIGITS == MIN_VALUE..MAX_VALUE
NO_DOT == 0
WHITE_DOT == 1
BLACK_DOT == 2
EMPTY_CELL == 0

\* range(n) of Python
range(n) == 0..(n - 1)

abs(x) == IF x < 0 THEN -x ELSE x

---------------------------------------------------------------------------
(* src/models/board.py *)

\* Board.__init__: an empty grid and no dots
NewBoard ==
    [grid            |-> [r \in range(GRID_SIZE) |-> [c \in range(GRID_SIZE) |-> 0]],
     horizontal_dots |-> [r \in range(GRID_SIZE) |-> [c \in range(GRID_SIZE - 1) |-> 0]],
     vertical_dots   |-> [r \in range(GRID_SIZE - 1) |-> [c \in range(GRID_SIZE) |-> 0]]]

is_valid_position(row, col) ==
    0 <= row /\ row < GRID_SIZE /\ 0 <= col /\ col < GRID_SIZE

\* is_valid_value with the empty marker forgotten
is_valid_value_digits_only(value) ==
    MIN_VALUE <= value /\ value <= MAX_VALUE

is_valid_value(value) ==
    value = EMPTY_CELL \/ (MIN_VALUE <= value /\ value <= MAX_VALUE)

\* set_value raises ValueError unless this holds
set_value_ok(row, col, value) ==
    is_valid_position(row, col) /\ is_valid_value(value)

\* set_value that checks its arguments and then stores nothing
set_value_not_stored(b, row, col, value) == b

\* the board after a set_value that does not raise
set_value(b, row, col, value) ==
    [b EXCEPT !.grid[row][col] = value]

get_value(b, row, col) == b.grid[row][col]

is_empty(b, row, col) == get_value(b, row, col) = EMPTY_CELL

get_block_index(row, col) == <<row \div BLOCK_SIZE, col \div BLOCK_SIZE>>

get_block(b, block_row, block_col) ==
    LET start_row == block_row * BLOCK_SIZE
        start_col == block_col * BLOCK_SIZE
    IN  [i \in range(BLOCK_SIZE) |->
            [j \in range(BLOCK_SIZE) |-> b.grid[start_row + i][start_col + j]]]

get_row(b, row) == b.grid[row]

get_column(b, col) == [r \in range(GRID_SIZE) |-> b.grid[r][col]]

is_complete(b) ==
    \A r \in range(GRID_SIZE) : \A c \in range(GRID_SIZE) : b.grid[r][c] # EMPTY_CELL

get_horizontal_dot(b, row, col) ==
    IF col < GRID_SIZE - 1 THEN b.horizontal_dots[row][col] ELSE NO_DOT

get_vertical_dot(b, row, col) ==
    IF row < GRID_SIZE - 1 THEN b.vertical_dots[row][col] ELSE NO_DOT

\* Board.copy: a deep copy (values, so the copy is the same record)
copy(b) ==
    [grid |-> b.grid, horizontal_dots |-> b.horizontal_dots,
     vertical_dots |-> b.vertical_dots]

---------------------------------------------------------------------------
(* src/models/board.py, as a caller sees it: every method either raises a  *)
(* ValueError or returns.  An outcome records the message of the           *)
(* exception ("none" when the method returns), the value returned and the  *)
(* board the call leaves behind.                                           *)

\* what a method that returns None returns
Nothing == "None"

Raises(message, b) == [raised |-> message, ret |-> Nothing, board |-> b]

Returns(value, b) == [raised |-> "none", ret |-> value, board |-> b]

Board_get_value(b, row, col) ==
    IF ~is_valid_position(row, col) THEN Raises("Invalid position", b)
    ELSE Returns(get_value(b, row, col), b)

\* set_value that stores whatever it is given at a valid position
Board_set_value_unchecked(b, row, col, value) ==
    IF ~is_valid_position(row, col) THEN Raises("Invalid position", b)
    ELSE Returns(Nothing, set_value(b, row, col, value))

Board_set_value(b, row, col, value) ==
    IF ~is_valid_position(row, col) THEN Raises("Invalid position", b)
    ELSE IF ~is_valid_value(value) THEN Raises("Invalid value", b)
    ELSE Returns(Nothing, set_value(b, row, col, value))

\* is_empty goes through get_value and raises what get_value raises
Board_is_empty(b, row, col) ==
    LET got == Board_get_value(b, row, col)
    IN  IF got.raised # "none" THEN got
        ELSE Returns(got.ret = EMPTY_CELL, b)

Board_get_block_index(b, row, col) ==
    IF ~is_valid_position(row, col) THEN Raises("Invalid position", b)
    ELSE Returns(get_block_index(row, col), b)

\* get_block that takes the grid size for the number of blocks
Board_get_block_nine_blocks(b, block_row, block_col) ==
    IF ~(0 <= block_row /\ block_row < GRID_SIZE
         /\ 0 <= block_col /\ block_col < GRID_SIZE)
    THEN Raises("Invalid block indices", b)
    ELSE Returns([i \in range(BLOCK_SIZE) |-> [j \in range(BLOCK_SIZE) |->
                     IF is_valid_position(block_row * BLOCK_SIZE + i,
                                          block_col * BLOCK_SIZE + j)
                     THEN b.grid[block_row * BLOCK_SIZE + i][block_col * BLOCK_SIZE + j]
                     ELSE EMPTY_CELL]], b)

Board_get_block(b, block_row, block_col) ==
    LET num_blocks == GRID_SIZE \div BLOCK_SIZE
    IN  IF ~(0 <= block_row /\ block_row < num_blocks
             /\ 0 <= block_col /\ block_col < num_blocks)
        THEN Raises("Invalid block indices", b)
        ELSE Returns(get_block(b, block_row, block_col), b)

Board_get_row(b, row) ==
    IF ~(0 <= row /\ row < GRID_SIZE) THEN Raises("Invalid row index", b)
    ELSE Returns(get_row(b, row), b)

Board_get_column(b, col) ==
    IF ~(0 <= col /\ col < GRID_SIZE) THEN Raises("Invalid column index", b)
    ELSE Returns(get_column(b, col), b)

Board_get_horizontal_dot(b, row, col) ==
    IF ~is_valid_position(row, col) THEN Raises("Invalid position", b)
    ELSE Returns(get_horizontal_dot(b, row, col), b)

Board_get_vertical_dot(b, row, col) ==
    IF ~is_valid_position(row, col) THEN Raises("Invalid position", b)
    ELSE Returns(get_vertical_dot(b, row, col), b)

\* set_horizontal_dot that has no place for a dot in the last column and
\* says so
Board_set_horizontal_dot_rejects_edge(b, row, col, value) ==
    IF ~is_valid_position(row, col) THEN Raises("Invalid position", b)
    ELSE IF value \notin {NO_DOT, WHITE_DOT, BLACK_DOT} THEN Raises("Invalid dot value", b)
    ELSE IF col < GRID_SIZE - 1
    THEN Returns(Nothing, [b EXCEPT !.horizontal_dots[row][col] = value])
    ELSE Raises("Invalid position", b)

\* the dot is stored only where there is a right neighbour
Board_set_horizontal_dot(b, row, col, value) ==
    IF ~is_valid_position(row, col) THEN Raises("Invalid position", b)
    ELSE IF value \notin {NO_DOT, WHITE_DOT, BLACK_DOT} THEN Raises("Invalid dot value", b)
    ELSE IF col < GRID_SIZE - 1
    THEN Returns(Nothing, [b EXCEPT !.horizontal_dots[row][col] = value])
    ELSE Returns(Nothing, b)

\* the dot is stored only where there is a lower neighbour
Board_set_vertical_dot(b, row, col, value) ==
    IF ~is_valid_position(row, col) THEN Raises("Invalid position", b)
    ELSE IF value \notin {NO_DOT, WHITE_DOT, BLACK_DOT} THEN Raises("Invalid dot value", b)
    ELSE IF row < GRID_SIZE - 1
    THEN Returns(Nothing, [b EXCEPT !.vertical_dots[row][col] = value])
    ELSE Returns(Nothing, b)

---------------------------------------------------------------------------
(* src/utils/validators.py *)

check_white_dot_constraint(val1, val2) ==
    IF val1 = EMPTY_CELL \/ val2 = EMPTY_CELL THEN TRUE
    ELSE abs(val1 - val2) = 1

\* check_black_dot_constraint that tests one direction only
check_black_dot_constraint_one_way(val1, val2) ==
    IF val1 = EMPTY_CELL \/ val2 = EMPTY_CELL THEN TRUE
    ELSE val1 = 2 * val2

check_black_dot_constraint(val1, val2) ==
    IF val1 = EMPTY_CELL \/ val2 = EMPTY_CELL THEN TRUE
    ELSE val1 = 2 * val2 \/ val2 = 2 * val1

\* check_no_dot_constraint that takes "no dot" for "no constraint"
check_no_dot_constraint_unconstrained(val1, val2) == TRUE

check_no_dot_constraint(val1, val2) ==
    IF val1 = EMPTY_CELL \/ val2 = EMPTY_CELL THEN TRUE
    ELSE LET has_white_dot == check_white_dot_constraint(val1, val2)
             has_black_dot == check_black_dot_constraint(val1, val2)
         IN  ~(has_white_dot \/ has_black_dot)

\* is_valid_sudoku_move and is_valid_dot_move raise ValueError unless this holds
is_valid_move_ok(row, col, value) ==
    is_valid_position(row, col) /\ is_valid_value(value)

\* is_valid_sudoku_move without its block check
is_valid_sudoku_move_no_block(b, row, col, value) ==
    IF value = EMPTY_CELL THEN TRUE
    ELSE
    LET row_values == get_row(b, row)
        col_values == get_column(b, col)
    IN  IF \E i \in range(GRID_SIZE) :
               row_values[i] # EMPTY_CELL /\ row_values[i] = value
        THEN FALSE
        ELSE IF \E i \in range(GRID_SIZE) :
               col_values[i] # EMPTY_CELL /\ col_values[i] = value
        THEN FALSE
        ELSE TRUE

is_valid_sudoku_move(b, row, col, value) ==
    IF value = EMPTY_CELL THEN TRUE
    ELSE
    LET row_values   == get_row(b, row)
        col_values   == get_column(b, col)
        bi           == get_block_index(row, col)
        block_values == get_block(b, bi[1], bi[2])
    IN  IF \E i \in range(GRID_SIZE) :
               row_values[i] # EMPTY_CELL /\ row_values[i] = value
        THEN FALSE
        ELSE IF \E i \in range(GRID_SIZE) :
               col_values[i] # EMPTY_CELL /\ col_values[i] = value
        THEN FALSE
        ELSE IF \E i \in range(BLOCK_SIZE) : \E j \in range(BLOCK_SIZE) :
               block_values[i][j] # EMPTY_CELL /\ block_values[i][j] = value
        THEN FALSE
        ELSE TRUE

\* is_valid_dot_move that reads the dot of the left neighbour at (row, col)
\* instead of (row, col - 1)
is_valid_dot_move_wrong_left_dot(b, row, col, value) ==
    IF value = EMPTY_CELL THEN TRUE
    ELSE
    LET rejects(dot, other) ==
            \/ dot = WHITE_DOT /\ ~check_white_dot_constraint(value, other)
            \/ dot = BLACK_DOT /\ ~check_black_dot_constraint(value, other)
            \/ dot = NO_DOT    /\ ~check_no_dot_constraint(value, other)
    IN  IF /\ col > 0
           /\ get_value(b, row, col - 1) # EMPTY_CELL
           /\ rejects(get_horizontal_dot(b, row, col), get_value(b, row, col - 1))
        THEN FALSE
        ELSE IF /\ col < GRID_SIZE - 1
                /\ get_value(b, row, col + 1) # EMPTY_CELL
                /\ rejects(get_horizontal_dot(b, row, col), get_value(b, row, col + 1))
        THEN FALSE
        ELSE IF /\ row > 0
                /\ get_value(b, row - 1, col) # EMPTY_CELL
                /\ rejects(get_vertical_dot(b, row - 1, col), get_value(b, row - 1, col))
        THEN FALSE
        ELSE IF /\ row < GRID_SIZE - 1
                /\ get_value(b, row + 1, col) # EMPTY_CELL
                /\ rejects(get_vertical_dot(b, row, col), get_value(b, row + 1, col))
        THEN FALSE
        ELSE TRUE

\* is_valid_dot_move without the check of the lower neighbour
is_valid_dot_move_no_lower(b, row, col, value) ==
    IF value = EMPTY_CELL THEN TRUE
    ELSE
    LET rejects(dot, other) ==
            \/ dot = WHITE_DOT /\ ~check_white_dot_constraint(value, other)
            \/ dot = BLACK_DOT /\ ~check_black_dot_constraint(value, other)
            \/ dot = NO_DOT    /\ ~check_no_dot_constraint(value, other)
    IN  IF /\ col > 0
           /\ get_value(b, row, col - 1) # EMPTY_CELL
           /\ rejects(get_horizontal_dot(b, row, col - 1), get_value(b, row, col - 1))
        THEN FALSE
        ELSE IF /\ col < GRID_SIZE - 1
                /\ get_value(b, row, col + 1) # EMPTY_CELL
                /\ rejects(get_horizontal_dot(b, row, col), get_value(b, row, col + 1))
        THEN FALSE
        ELSE IF /\ row > 0
                /\ get_value(b, row - 1, col) # EMPTY_CELL
                /\ rejects(get_vertical_dot(b, row - 1, col), get_value(b, row - 1, col))
        THEN FALSE
        ELSE TRUE

is_valid_dot_move(b, row, col, value) ==
    IF value = EMPTY_CELL THEN TRUE
    ELSE
    LET \* the three tests made against one neighbour that holds a value
        rejects(dot, other) ==
            \/ dot = WHITE_DOT /\ ~check_white_dot_constraint(value, other)
            \/ dot = BLACK_DOT /\ ~check_black_dot_constraint(value, other)
            \/ dot = NO_DOT    /\ ~check_no_dot_constraint(value, other)
    IN  IF /\ col > 0
           /\ get_value(b, row, col - 1) # EMPTY_CELL
           /\ rejects(get_horizontal_dot(b, row, col - 1), get_value(b, row, col - 1))
        THEN FALSE
        ELSE IF /\ col < GRID_SIZE - 1
                /\ get_value(b, row, col + 1) # EMPTY_CELL
                /\ rejects(get_horizontal_dot(b, row, col), get_value(b, row, col + 1))
        THEN FALSE
        ELSE IF /\ row > 0
                /\ get_value(b, row - 1, col) # EMPTY_CELL
                /\ rejects(get_vertical_dot(b, row - 1, col), get_value(b, row - 1, col))
        THEN FALSE
        ELSE IF /\ row < GRID_SIZE - 1
                /\ get_value(b, row + 1, col) # EMPTY_CELL
                /\ rejects(get_vertical_dot(b, row, col), get_value(b, row + 1, col))
        THEN FALSE
        ELSE TRUE

\* get_valid_values that forgets the dot check
get_valid_values_sudoku_only(b, row, col) ==
    IF ~is_empty(b, row, col) THEN {}
    ELSE VALID_DIGITS \ {value \in VALID_DIGITS :
            ~is_valid_sudoku_move(b, row, col, value)}

get_valid_values(b, row, col) ==
    IF ~is_empty(b, row, col) THEN {}
    ELSE VALID_DIGITS \ {value \in VALID_DIGITS :
            IF ~is_valid_sudoku_move(b, row, col, value) THEN TRUE
            ELSE ~is_valid_dot_move(b, row, col, value)}

---------------------------------------------------------------------------
(* src/utils/verifier.py *)

verify_sudoku_rules(solution) ==
    LET required_set == MIN_VALUE..MAX_VALUE
    IN  /\ \A row \in range(GRID_SIZE) :
              {solution[row][c] : c \in range(GRID_SIZE)} = required_set
        /\ \A col \in range(GRID_SIZE) :
              {solution[r][col] : r \in range(GRID_SIZE)} = required_set
        /\ \A block_row \in range(BLOCK_SIZE) : \A block_col \in range(BLOCK_SIZE) :
              LET start_row == block_row * BLOCK_SIZE
                  start_col == block_col * BLOCK_SIZE
              IN  {solution[start_row + i][start_col + j] :
                      i \in range(BLOCK_SIZE), j \in range(BLOCK_SIZE)} = required_set

verify_white_dot(val1, val2) == abs(val1 - val2) = 1

verify_black_dot(val1, val2) == val1 = 2 * val2 \/ val2 = 2 * val1

verify_no_dot(val1, val2) ==
    LET has_white_dot == abs(val1 - val2) = 1
        has_black_dot == val1 = 2 * val2 \/ val2 = 2 * val1
    IN  ~has_white_dot /\ ~has_black_dot

verify_dot_constraints(b, solution) ==
    LET verify(dot, val1, val2) ==
            IF dot = WHITE_DOT THEN verify_white_dot(val1, val2)
            ELSE IF dot = BLACK_DOT THEN verify_black_dot(val1, val2)
            ELSE IF dot = NO_DOT THEN verify_no_dot(val1, val2)
            ELSE FALSE
    IN  /\ \A row \in range(GRID_SIZE) : \A col \in range(GRID_SIZE - 1) :
              verify(get_horizontal_dot(b, row, col),
                     solution[row][col], solution[row][col + 1])
        /\ \A row \in range(GRID_SIZE - 1) : \A col \in range(GRID_SIZE) :
              verify(get_vertical_dot(b, row, col),
                     solution[row][col], solution[row + 1][col])

---------------------------------------------------------------------------
(* src/solver/solver.py *)

\* get_degree without the dots: the empty cells of the three units only
get_degree_units_only(b, row, col) ==
    LET block_row == row \div BLOCK_SIZE
        block_col == col \div BLOCK_SIZE
        in_row   == Cardinality({c \in range(GRID_SIZE) : c # col /\ is_empty(b, row, c)})
        in_col   == Cardinality({r \in range(GRID_SIZE) : r # row /\ is_empty(b, r, col)})
        in_block == Cardinality(
            {rc \in ((block_row * BLOCK_SIZE)..((block_row + 1) * BLOCK_SIZE - 1))
                    \X ((block_col * BLOCK_SIZE)..((block_col + 1) * BLOCK_SIZE - 1)) :
                (rc[1] # row \/ rc[2] # col) /\ is_empty(b, rc[1], rc[2])})
    IN  in_row + in_col + in_block

get_degree(b, row, col) ==
    LET block_row == row \div BLOCK_SIZE
        block_col == col \div BLOCK_SIZE
        in_row   == Cardinality({c \in range(GRID_SIZE) : c # col /\ is_empty(b, row, c)})
        in_col   == Cardinality({r \in range(GRID_SIZE) : r # row /\ is_empty(b, r, col)})
        in_block == Cardinality(
            {rc \in ((block_row * BLOCK_SIZE)..((block_row + 1) * BLOCK_SIZE - 1))
                    \X ((block_col * BLOCK_SIZE)..((block_col + 1) * BLOCK_SIZE - 1)) :
                (rc[1] # row \/ rc[2] # col) /\ is_empty(b, rc[1], rc[2])})
        left  == IF col > 0 /\ is_empty(b, row, col - 1)
                    /\ get_horizontal_dot(b, row, col - 1) # NO_DOT THEN 1 ELSE 0
        right == IF col < GRID_SIZE - 1 /\ is_empty(b, row, col + 1)
                    /\ get_horizontal_dot(b, row, col) # NO_DOT THEN 1 ELSE 0
        upper == IF row > 0 /\ is_empty(b, row - 1, col)
                    /\ get_vertical_dot(b, row - 1, col) # NO_DOT THEN 1 ELSE 0
        lower == IF row < GRID_SIZE - 1 /\ is_empty(b, row + 1, col)
                    /\ get_vertical_dot(b, row, col) # NO_DOT THEN 1 ELSE 0
    IN  in_row + in_col + in_block + left + right + upper + lower

\* float('inf') of select_unassigned_variable: above every domain size
infinity == MAX_VALUE + 1

\* None of Python; a selected variable is the pair <<row, col>>
None == <<>>

\* the element of a one-element set
only(S) == CHOOSE x \in S : TRUE

\* the inner loop of select_unassigned_variable over the columns of one row.
\* Its body acts on empty cells only, so the scan runs over the empty cells of
\* the row still to visit, numbered GRID_SIZE * row + col; the least number is
\* the next cell in the order of the loop.  It yields the three locals
\* <<min_remaining, max_degree, selected_var>> as the row leaves them.
RECURSIVE select_scan(_, _, _, _, _)
select_scan(b, todo, min_remaining, max_degree, selected_var) ==
    IF todo = {} THEN <<min_remaining, max_degree, selected_var>>
    ELSE only({
        LET row == k \div GRID_SIZE
            col == k % GRID_SIZE
            domain_size == Cardinality(get_valid_values(b, row, col))
            degree      == get_degree(b, row, col)
        IN  IF \/ domain_size < min_remaining
               \/ (domain_size = min_remaining /\ degree > max_degree)
            THEN select_scan(b, todo \ {k}, domain_size, degree, <<row, col>>)
            ELSE select_scan(b, todo \ {k}, min_remaining, max_degree, selected_var)
        : k \in {x \in todo : \A y \in todo : x <= y}})

\* the outer loop of select_unassigned_variable over the rows, from row on
RECURSIVE select_rows(_, _, _)
select_rows(b, row, locals) ==
    IF row = GRID_SIZE THEN locals[3]
    ELSE only({select_rows(b, row + 1, after) :
               after \in {select_scan(b,
                              {GRID_SIZE * row + col : col \in
                                  {c \in range(GRID_SIZE) : is_empty(b, row, c)}},
                              locals[1], locals[2], locals[3])}})

select_unassigned_variable(b) ==
    select_rows(b, 0, <<infinity, -1, None>>)

\* the plain variant of the specification: first empty cell in row-major order
select_first_empty(b) ==
    LET empties == {k \in range(GRID_SIZE * GRID_SIZE) :
                        is_empty(b, k \div GRID_SIZE, k % GRID_SIZE)}
    IN  IF empties = {} THEN None
        ELSE LET k == CHOOSE x \in empties : \A y \in empties : x <= y
             IN  <<k \div GRID_SIZE, k % GRID_SIZE>>

RECURSIVE order_domain_values(_)
order_domain_values(domain) ==
    IF domain = {} THEN <<>>
    ELSE only({<<least>> \o order_domain_values(domain \ {least}) :
                   least \in {x \in domain : \A y \in domain : x <= y}})

\* inference that also fails on a domain of one value
inference_off_by_one(b, fc, row, col) ==
    IF ~fc THEN TRUE
    ELSE
    LET block_row == row \div BLOCK_SIZE
        block_col == col \div BLOCK_SIZE
    IN  IF \E i \in range(GRID_SIZE) :
               \/ i # col /\ is_empty(b, row, i) /\ Cardinality(get_valid_values(b, row, i)) <= 1
               \/ i # row /\ is_empty(b, i, col) /\ Cardinality(get_valid_values(b, i, col)) <= 1
        THEN FALSE
        ELSE IF \E i \in (block_row * BLOCK_SIZE)..((block_row + 1) * BLOCK_SIZE - 1) :
                \E j \in (block_col * BLOCK_SIZE)..((block_col + 1) * BLOCK_SIZE - 1) :
                    /\ (i # row \/ j # col)
                    /\ is_empty(b, i, j)
                    /\ Cardinality(get_valid_values(b, i, j)) <= 1
        THEN FALSE
        ELSE TRUE

inference(b, fc, row, col) ==
    IF ~fc THEN TRUE
    ELSE
    LET block_row == row \div BLOCK_SIZE
        block_col == col \div BLOCK_SIZE
    IN  IF \E i \in range(GRID_SIZE) :
               \/ i # col /\ is_empty(b, row, i) /\ Cardinality(get_valid_values(b, row, i)) = 0
               \/ i # row /\ is_empty(b, i, col) /\ Cardinality(get_valid_values(b, i, col)) = 0
        THEN FALSE
        ELSE IF \E i \in (block_row * BLOCK_SIZE)..((block_row + 1) * BLOCK_SIZE - 1) :
                \E j \in (block_col * BLOCK_SIZE)..((block_col + 1) * BLOCK_SIZE - 1) :
                    /\ (i # row \/ j # col)
                    /\ is_empty(b, i, j)
                    /\ Cardinality(get_valid_values(b, i, j)) = 0
        THEN FALSE
        ELSE TRUE

---------------------------------------------------------------------------
(* KropkiSolver.backtrack, one frame of the stack per active call.  A frame *)
(* is at "enter" (lines 138-148 still to run), at "loop" (at the head of    *)
(* the for loop of line 149) or at "wait" (inside the recursive call of     *)
(* line 165, made for the value it assigned at (row, col)).                 *)

\* the engine configurations a puzzle is solved under, in this order
Configs ==
    <<[forward_checking |-> FALSE, selection |-> "mrv"],
      [forward_checking |-> TRUE,  selection |-> "mrv"],
      [forward_checking |-> FALSE, selection |-> "plain"]>>

\* no call made yet
NoCall == [op |-> "none", args |-> <<>>, raised |-> "none", ret |-> "None"]

EnterFrame == [pc |-> "enter", row |-> 0, col |-> 0, values |-> <<>>]

Top == stack[Len(stack)]

Pop == SubSeq(stack, 1, Len(stack) - 1)

SetTop(frame) == [stack EXCEPT ![Len(stack)] = frame]

\* a ValueError propagates out of every active frame and out of solve
Raise ==
    /\ stack' = <<>>
    /\ result' = "ValueError"

\* the configured variable selection
select(b) ==
    IF selection = "plain" THEN select_first_empty(b)
    ELSE select_unassigned_variable(b)

\* solve that starts its statistics afresh
Solve_resetting_counters ==
    /\ stack = <<>>
    /\ result = "none"
    /\ Len(runs) < Len(Configs)
    /\ stack' = <<EnterFrame>>
    /\ assignments' = 0
    /\ backtracks' = 0
    /\ UNCHANGED <<board, puzzle, use_forward_checking, selection, result, runs>>
    /\ UNCHANGED driver

\* KropkiSolver.solve -> backtracking_search -> backtrack(board)
Solve ==
    /\ stack = <<>>
    /\ result = "none"
    /\ Len(runs) < Len(Configs)
    /\ stack' = <<EnterFrame>>
    /\ UNCHANGED <<board, puzzle, use_forward_checking, selection, assignments,
                   backtracks, result, runs>>
    /\ UNCHANGED driver

\* lines 138-148: base case, variable selection, domain of the selected cell.
\* var is selected once and then read, as the local variable of the code is.
Enter ==
    /\ stack # <<>>
    /\ Top.pc = "enter"
    /\ IF is_complete(board)
       THEN stack' = Pop /\ result' = "True"
       ELSE \E var \in {select(board)} :
                IF var = None
                THEN stack' = Pop /\ result' = "False"
                ELSE IF ~is_valid_position(var[1], var[2])
                THEN Raise
                ELSE /\ stack' = SetTop(
                            [pc |-> "loop", row |-> var[1], col |-> var[2],
                             values |-> order_domain_values(
                                            get_valid_values(board, var[1], var[2]))])
                     /\ result' = "none"
    /\ UNCHANGED <<board, puzzle, use_forward_checking, selection, assignments,
                   backtracks, runs>>
    /\ UNCHANGED driver

\* lines 149-163 and 170-176: one iteration of the for loop up to the
\* recursive call, or the exit of the loop
Loop ==
    /\ stack # <<>>
    /\ Top.pc = "loop"
    /\ LET row   == Top.row
           col   == Top.col
           value == Head(Top.values)
           rest  == [Top EXCEPT !.values = Tail(Top.values)]
       IN
       IF Top.values = <<>>
       THEN /\ stack' = Pop
            /\ result' = "False"
            /\ UNCHANGED <<board, assignments, backtracks>>
       ELSE IF ~is_valid_move_ok(row, col, value)
       THEN Raise /\ UNCHANGED <<board, assignments, backtracks>>
       ELSE IF ~(is_valid_sudoku_move(board, row, col, value)
                 /\ is_valid_dot_move(board, row, col, value))
       THEN /\ stack' = SetTop(rest)
            /\ UNCHANGED <<board, assignments, backtracks, result>>
       ELSE IF ~set_value_ok(row, col, value)
       THEN Raise /\ UNCHANGED <<board, assignments, backtracks>>
       ELSE \E assigned \in {set_value(board, row, col, value)} :
                IF inference(assigned, use_forward_checking, row, col)
                THEN /\ board' = assigned
                     /\ assignments' = assignments + 1
                     /\ stack' = Append(SetTop([rest EXCEPT !.pc = "wait"]), EnterFrame)
                     /\ UNCHANGED <<backtracks, result>>
                ELSE IF ~set_value_ok(row, col, EMPTY_CELL)
                THEN /\ Raise
                     /\ board' = assigned
                     /\ assignments' = assignments + 1
                     /\ backtracks' = backtracks + 1
                ELSE /\ board' = set_value(assigned, row, col, EMPTY_CELL)
                     /\ assignments' = assignments + 1
                     /\ backtracks' = backtracks + 1
                     /\ stack' = SetTop(rest)
                     /\ UNCHANGED result
    /\ UNCHANGED <<puzzle, use_forward_checking, selection, runs>>
    /\ UNCHANGED driver

\* Return that forgets to clear the cell after a failed recursive call
Return_without_reset ==
    /\ stack # <<>>
    /\ Top.pc = "wait"
    /\ result \in {"True", "False"}
    /\ IF result = "True"
       THEN /\ stack' = Pop
            /\ UNCHANGED <<board, backtracks, result>>
       ELSE /\ backtracks' = backtracks + 1
            /\ stack' = SetTop([Top EXCEPT !.pc = "loop"])
            /\ result' = "none"
            /\ UNCHANGED board
    /\ UNCHANGED <<puzzle, use_forward_checking, selection, assignments, runs>>
    /\ UNCHANGED driver

\* lines 165-173: the recursive call has returned into the frame that made it
Return ==
    /\ stack # <<>>
    /\ Top.pc = "wait"
    /\ result \in {"True", "False"}
    /\ IF result = "True"
       THEN /\ stack' = Pop
            /\ UNCHANGED <<board, backtracks, result>>
       ELSE IF ~set_value_ok(Top.row, Top.col, EMPTY_CELL)
       THEN /\ Raise
            /\ backtracks' = backtracks + 1
            /\ UNCHANGED board
       ELSE /\ backtracks' = backtracks + 1
            /\ board' = set_value(board, Top.row, Top.col, EMPTY_CELL)
            /\ stack' = SetTop([Top EXCEPT !.pc = "loop"])
            /\ result' = "none"
    /\ UNCHANGED <<puzzle, use_forward_checking, selection, assignments, runs>>
    /\ UNCHANGED driver

---------------------------------------------------------------------------
(* The caller of the engine (src/main.py, process_file): a puzzle is       *)
(* handed to solve of a freshly constructed engine.  The same puzzle is     *)
(* solved once per engine configuration, each time on a fresh copy.         *)

\* solve has returned to its caller
Returned == stack = <<>> /\ result # "none"

\* the caller takes the outcome; the next configuration gets a new engine
\* (KropkiSolver.__init__) and a fresh copy of the puzzle
NextRun ==
    /\ Returned
    /\ runs' = Append(runs,
                  [forward_checking |-> use_forward_checking,
                   selection        |-> selection,
                   result           |-> result,
                   grid             |-> board.grid,
                   assignments      |-> assignments,
                   backtracks       |-> backtracks])
    /\ result' = "none"
    /\ IF Len(runs) + 1 < Len(Configs)
       THEN /\ use_forward_checking' = Configs[Len(runs) + 2].forward_checking
            /\ selection' = Configs[Len(runs) + 2].selection
            /\ assignments' = 0
            /\ backtracks' = 0
            /\ board' = copy(puzzle)
       ELSE UNCHANGED <<use_forward_checking, selection, assignments, backtracks, board>>
    /\ UNCHANGED <<puzzle, stack>>
    /\ UNCHANGED driver

---------------------------------------------------------------------------
(* The puzzles handed to the engine: a solved Kropki grid with the dots its *)
(* values call for, some cells of Region blanked, and at most one dot or    *)
(* one clue overwritten.                                                    *)

\* most cells blanked in one puzzle
MaxEmpty == 6

SolvedRows ==
    << <<3, 9, 8, 2, 4, 1, 5, 7, 6>>,
       <<2, 1, 7, 8, 6, 5, 9, 3, 4>>,
       <<6, 4, 5, 7, 3, 9, 8, 2, 1>>,
       <<7, 6, 9, 5, 1, 2, 3, 4, 8>>,
       <<4, 3, 2, 6, 8, 7, 1, 9, 5>>,
       <<5, 8, 1, 3, 9, 4, 7, 6, 2>>,
       <<1, 2, 3, 4, 7, 8, 6, 5, 9>>,
       <<8, 7, 4, 9, 5, 6, 2, 1, 3>>,
       <<9, 5, 6, 1, 2, 3, 4, 8, 7>> >>

Solved(r, c) == SolvedRows[r + 1][c + 1]

\* the dot a pair of values calls for
DotBetween(a, b) ==
    IF abs(a - b) = 1 THEN WHITE_DOT
    ELSE IF a = 2 * b \/ b = 2 * a THEN BLACK_DOT
    ELSE NO_DOT

\* the cells a puzzle may leave empty
Region == {<<0, 6>>, <<0, 7>>, <<3, 7>>, <<5, 6>>, <<5, 7>>, <<6, 6>>, <<6, 7>>}

Dots == {NO_DOT, WHITE_DOT, BLACK_DOT}

Overwrites ==
    {[kind |-> "none", row |-> 0, col |-> 0, value |-> 0]}
    \cup {[kind |-> "h", row |-> rc[1], col |-> rc[2], value |-> d] :
              rc \in {<<6, 6>>, <<3, 7>>}, d \in Dots}
    \cup {[kind |-> "v", row |-> rc[1], col |-> rc[2], value |-> d] :
              rc \in {<<5, 6>>}, d \in Dots}
    \cup {[kind |-> "clue", row |-> 3, col |-> 8, value |-> d] : d \in {2, 9}}
    \cup {[kind |-> "clue", row |-> 1, col |-> 8, value |-> 7]}

MakePuzzle(blank, o) ==
    [grid |->
        [r \in range(GRID_SIZE) |-> [c \in range(GRID_SIZE) |->
            IF <<r, c>> \in blank THEN EMPTY_CELL
            ELSE IF o.kind = "clue" /\ o.row = r /\ o.col = c THEN o.value
            ELSE Solved(r, c)]],
     horizontal_dots |->
        [r \in range(GRID_SIZE) |-> [c \in range(GRID_SIZE - 1) |->
            IF o.kind = "h" /\ o.row = r /\ o.col = c THEN o.value
            ELSE DotBetween(Solved(r, c), Solved(r, c + 1))]],
     vertical_dots |->
        [r \in range(GRID_SIZE - 1) |-> [c \in range(GRID_SIZE) |->
            IF o.kind = "v" /\ o.row = r /\ o.col = c THEN o.value
            ELSE DotBetween(Solved(r, c), Solved(r + 1, c))]]]

Init ==
    /\ \E blank \in SUBSET Region : \E o \in Overwrites :
          /\ Cardinality(blank) <= MaxEmpty
          /\ puzzle = MakePuzzle(blank, o)
    /\ board = copy(puzzle)
    /\ use_forward_checking = Configs[1].forward_checking
    /\ selection = Configs[1].selection
    /\ assignments = 0
    /\ backtracks = 0
    /\ stack = <<>>
    /\ result = "none"
    /\ runs = <<>>
    /\ call = NoCall
    /\ files = <<>>
    /\ log = <<>>
    /\ output = <<>>
    /\ pc = "solve"

Next ==
    \/ Solve
    \/ Enter
    \/ Loop
    \/ Return
    \/ NextRun

Spec == Init /\ [][Next]_vars

\* the interpreter runs the search without pause: a step that can be taken
\* is taken
FairSpec == Spec /\ WF_vars(Next)

---------------------------------------------------------------------------
(* src/utils/io_handler.py.  A file is a sequence of lines and a line the  *)
(* sequence of its whitespace-separated tokens; a token is a string.  A    *)
(* blank line is the empty sequence.                                       *)

\* str(x) for the values a grid holds
str(x) ==
    CASE x = 0 -> "0" [] x = 1 -> "1" [] x = 2 -> "2" [] x = 3 -> "3"
      [] x = 4 -> "4" [] x = 5 -> "5" [] x = 6 -> "6" [] x = 7 -> "7"
      [] x = 8 -> "8" [] x = 9 -> "9"

\* the tokens int() accepts among those the files hold, with their values;
\* int() raises ValueError on every other token
IntValues ==
    {<<"0", 0>>, <<"1", 1>>, <<"2", 2>>, <<"3", 3>>, <<"4", 4>>, <<"5", 5>>,
     <<"6", 6>>, <<"7", 7>>, <<"8", 8>>, <<"9", 9>>, <<"10", 10>>, <<"-1", -1>>,
     <<"07", 7>>}

int_ok(x) == \E p \in IntValues : p[1] = x

int(x) == (CHOOSE p \in IntValues : p[1] = x)[2]

\* what a function of this file produces: the message of the ValueError it
\* raises ("none" when it returns) and the value it returns
Fails(message) == [raised |-> message, ret |-> Nothing]

Gives(value) == [raised |-> "none", ret |-> value]

\* validate_grid_line with the largest digit left out of the range
validate_grid_line_below_max(line) ==
    IF \E k \in 1..Len(line) : ~int_ok(line[k]) THEN Fails("Invalid number format in grid")
    ELSE LET values == [k \in 1..Len(line) |-> int(line[k])]
         IN  IF Len(values) # GRID_SIZE THEN Fails("Expected 9 values")
             ELSE IF \E k \in 1..Len(values) :
                        values[k] # EMPTY_CELL
                        /\ ~(MIN_VALUE <= values[k] /\ values[k] < MAX_VALUE)
             THEN Fails("Invalid value")
             ELSE Gives(values)

validate_grid_line(line) ==
    IF \E k \in 1..Len(line) : ~int_ok(line[k]) THEN Fails("Invalid number format in grid")
    ELSE LET values == [k \in 1..Len(line) |-> int(line[k])]
         IN  IF Len(values) # GRID_SIZE THEN Fails("Expected 9 values")
             ELSE IF \E k \in 1..Len(values) :
                        values[k] # EMPTY_CELL
                        /\ ~(MIN_VALUE <= values[k] /\ values[k] <= MAX_VALUE)
             THEN Fails("Invalid value")
             ELSE Gives(values)

validate_dot_line(line, expected_length) ==
    IF \E k \in 1..Len(line) : ~int_ok(line[k]) THEN Fails("Invalid number format in dots")
    ELSE LET dots == [k \in 1..Len(line) |-> int(line[k])]
         IN  IF Len(dots) # expected_length THEN Fails("Expected values")
             ELSE IF \E k \in 1..Len(dots) : dots[k] \notin {NO_DOT, WHITE_DOT, BLACK_DOT}
             THEN Fails("Invalid dot value")
             ELSE Gives(dots)

\* the clue at (row, col) is tested with its own cell emptied for the test
clue_rejected(b, row, col) ==
    LET value == get_value(b, row, col)
    IN  IF value = EMPTY_CELL THEN "none"
        ELSE \* set_value(row, col, EMPTY_CELL), the two tests, set_value(row, col, value)
             IF ~is_valid_sudoku_move(set_value(b, row, col, EMPTY_CELL), row, col, value)
             THEN "violates Sudoku rules"
             ELSE IF ~is_valid_dot_move(set_value(b, row, col, EMPTY_CELL), row, col, value)
             THEN "violates dot constraints"
             ELSE "none"

\* verify_initial_board that trusts the dots of the file
verify_initial_board_no_dots(b) ==
    LET bad == {k \in range(GRID_SIZE * GRID_SIZE) :
                   /\ get_value(b, k \div GRID_SIZE, k % GRID_SIZE) # EMPTY_CELL
                   /\ ~is_valid_sudoku_move(
                          set_value(b, k \div GRID_SIZE, k % GRID_SIZE, EMPTY_CELL),
                          k \div GRID_SIZE, k % GRID_SIZE,
                          get_value(b, k \div GRID_SIZE, k % GRID_SIZE))}
    IN  IF bad = {} THEN Gives(Nothing) ELSE Fails("violates Sudoku rules")

\* the cells are visited in row-major order and the first clue that fails a
\* test raises
verify_initial_board(b) ==
    LET bad == {k \in range(GRID_SIZE * GRID_SIZE) :
                   clue_rejected(b, k \div GRID_SIZE, k % GRID_SIZE) # "none"}
    IN  IF bad = {} THEN Gives(Nothing)
        ELSE LET first == CHOOSE k \in bad : \A j \in bad : k <= j
             IN  Fails(clue_rejected(b, first \div GRID_SIZE, first % GRID_SIZE))

\* a line that is not empty once stripped
not_blank(line) == line # <<>>

\* what the loops of load_puzzle make of the k-th of the 26 lines they read:
\* 9 grid rows, 9 rows of horizontal dots, 8 rows of vertical dots
read_line(lines, k) ==
    IF k >= Len(lines) THEN Fails("File too short")
    ELSE IF k < GRID_SIZE THEN validate_grid_line(lines[k + 1])
    ELSE IF k < 2 * GRID_SIZE THEN validate_dot_line(lines[k + 1], GRID_SIZE - 1)
    ELSE validate_dot_line(lines[k + 1], GRID_SIZE)

\* load_puzzle of a file that exists.  Every ValueError of the body is
\* raised again as ValueError("Invalid file format: ...")
load_puzzle(text) ==
    LET lines == SelectSeq(text, not_blank)
        read  == [k \in range(3 * GRID_SIZE - 1) |-> read_line(lines, k)]
        bad   == {k \in DOMAIN read : read[k].raised # "none"}
        b     == [grid |->
                      [r \in range(GRID_SIZE) |-> [c \in range(GRID_SIZE) |->
                          read[r].ret[c + 1]]],
                  horizontal_dots |->
                      [r \in range(GRID_SIZE) |-> [c \in range(GRID_SIZE - 1) |->
                          read[GRID_SIZE + r].ret[c + 1]]],
                  vertical_dots |->
                      [r \in range(GRID_SIZE - 1) |-> [c \in range(GRID_SIZE) |->
                          read[2 * GRID_SIZE + r].ret[c + 1]]]]
    IN  IF bad # {}
        THEN [raised |-> "Invalid file format",
              detail |-> read[CHOOSE k \in bad : \A j \in bad : k <= j].raised,
              ret    |-> Nothing]
        ELSE IF verify_initial_board(b).raised # "none"
        THEN [raised |-> "Invalid file format",
              detail |-> verify_initial_board(b).raised,
              ret    |-> Nothing]
        ELSE [raised |-> "none", detail |-> "none", ret |-> b]

\* no file at a path
NoFile == << <<"no file">> >>

\* save_solution that writes what it is given
save_solution_incomplete(b, file) ==
    [raised |-> "none",
     file   |-> [row \in 1..GRID_SIZE |->
                    [c \in 1..GRID_SIZE |-> str(get_row(b, row - 1)[c - 1])]]]

\* save_solution(board, file_path), file being what the path holds before
\* the call: the outcome and what the path holds afterwards.  The rows are
\* joined by newlines, with no newline after the last.
save_solution(b, file) ==
    IF ~is_complete(b)
    THEN [raised |-> "Cannot save incomplete solution", file |-> file]
    ELSE [raised |-> "none",
          file   |-> [row \in 1..GRID_SIZE |->
                         [c \in 1..GRID_SIZE |-> str(get_row(b, row - 1)[c - 1])]]]

\* the lines of an input file that holds the puzzle b
puzzle_file(b) ==
    [row \in 1..GRID_SIZE |-> [c \in 1..GRID_SIZE |-> str(b.grid[row - 1][c - 1])]]
    \o [row \in 1..GRID_SIZE |->
           [c \in 1..(GRID_SIZE - 1) |-> str(b.horizontal_dots[row - 1][c - 1])]]
    \o [row \in 1..(GRID_SIZE - 1) |->
           [c \in 1..GRID_SIZE |-> str(b.vertical_dots[row - 1][c - 1])]]

---------------------------------------------------------------------------
(* A client of the Board: it holds a loaded puzzle and calls the methods   *)
(* of the Board and the engine on it, one call after the other, with       *)
(* arguments inside and outside their ranges.                              *)

\* the solve calls a client makes
MaxSolves == 1

\* (row, col) arguments: a cell of the last column, a cell of the last row,
\* and positions off each side of the grid
Positions == {<<7, 8>>, <<8, 7>>, <<-1, 7>>, <<7, -1>>, <<9, 7>>, <<7, 9>>}

\* value arguments of set_value
Values == {-1, EMPTY_CELL, MAX_VALUE, MAX_VALUE + 1}

\* value arguments of the dot setters
DotValues == {NO_DOT, BLACK_DOT, BLACK_DOT + 1}

\* row or column arguments of get_row and get_column
Indexes == {-1, GRID_SIZE - 1, GRID_SIZE}

\* (block_row, block_col) arguments of get_block
BlockIndexes == {<<-1, 0>>, <<0, -1>>, <<2, 2>>, <<0, 3>>, <<3, 0>>}

\* the client is between two calls
Idle == pc = "client" /\ stack = <<>> /\ result = "none"

\* the call is recorded with its outcome and the board is the one it leaves
Called(op, args, outcome) ==
    /\ call' = [op |-> op, args |-> args, raised |-> outcome.raised, ret |-> outcome.ret]
    /\ board' = outcome.board
    /\ UNCHANGED <<puzzle, use_forward_checking, selection, assignments,
                   backtracks, stack, result, runs, files, log, output, pc>>

GetValue ==
    /\ Idle
    /\ \E p \in Positions : Called("get_value", p, Board_get_value(board, p[1], p[2]))

SetValue ==
    /\ Idle
    /\ \E p \in Positions : \E value \in Values :
          Called("set_value", <<p[1], p[2], value>>,
                 Board_set_value(board, p[1], p[2], value))

IsEmpty ==
    /\ Idle
    /\ \E p \in Positions : Called("is_empty", p, Board_is_empty(board, p[1], p[2]))

GetBlockIndex ==
    /\ Idle
    /\ \E p \in Positions :
          Called("get_block_index", p, Board_get_block_index(board, p[1], p[2]))

GetBlock ==
    /\ Idle
    /\ \E p \in BlockIndexes : Called("get_block", p, Board_get_block(board, p[1], p[2]))

GetRow ==
    /\ Idle
    /\ \E row \in Indexes : Called("get_row", <<row>>, Board_get_row(board, row))

GetColumn ==
    /\ Idle
    /\ \E col \in Indexes : Called("get_column", <<col>>, Board_get_column(board, col))

GetHorizontalDot ==
    /\ Idle
    /\ \E p \in Positions :
          Called("get_horizontal_dot", p, Board_get_horizontal_dot(board, p[1], p[2]))

GetVerticalDot ==
    /\ Idle
    /\ \E p \in Positions :
          Called("get_vertical_dot", p, Board_get_vertical_dot(board, p[1], p[2]))

SetHorizontalDot ==
    /\ Idle
    /\ \E p \in Positions : \E value \in DotValues :
          Called("set_horizontal_dot", <<p[1], p[2], value>>,
                 Board_set_horizontal_dot(board, p[1], p[2], value))

SetVerticalDot ==
    /\ Idle
    /\ \E p \in Positions : \E value \in DotValues :
          Called("set_vertical_dot", <<p[1], p[2], value>>,
                 Board_set_vertical_dot(board, p[1], p[2], value))

\* the client calls solve on its board
ClientSolve ==
    /\ pc = "client"
    /\ Len(runs) < MaxSolves
    /\ Solve

\* solve has returned to the client
ClientSolved ==
    /\ pc = "client"
    /\ Returned
    /\ call' = [op |-> "solve", args |-> <<>>,
                raised |-> IF result = "ValueError" THEN "ValueError" ELSE "none",
                ret |-> IF result = "ValueError" THEN Nothing ELSE result]
    /\ runs' = Append(runs, [result |-> result])
    /\ result' = "none"
    /\ UNCHANGED <<board, puzzle, use_forward_checking, selection, assignments,
                   backtracks, stack, files, log, output, pc>>

BoardInit ==
    /\ puzzle = MakePuzzle({}, [kind |-> "none", row |-> 0, col |-> 0, value |-> 0])
    /\ board = copy(puzzle)
    /\ use_forward_checking = FALSE
    /\ selection = "mrv"
    /\ assignments = 0
    /\ backtracks = 0
    /\ stack = <<>>
    /\ result = "none"
    /\ runs = <<>>
    /\ call = NoCall
    /\ files = <<>>
    /\ log = <<>>
    /\ output = <<>>
    /\ pc = "client"

BoardNext ==
    \/ GetValue
    \/ SetValue
    \/ IsEmpty
    \/ GetBlockIndex
    \/ GetBlock
    \/ GetRow
    \/ GetColumn
    \/ GetHorizontalDot
    \/ GetVerticalDot
    \/ SetHorizontalDot
    \/ SetVerticalDot
    \/ ClientSolve
    \/ Enter
    \/ Loop
    \/ Return
    \/ ClientSolved

BoardSpec == BoardInit /\ [][BoardNext]_vars

---------------------------------------------------------------------------
(* A client of the writer and the loader: it holds a loaded puzzle, may    *)
(* call solve on it, saves its board to one output path at any time and    *)
(* reads the output back with the loader.                                  *)

\* save_solution(board, path) on the client's board
SaveSolution ==
    /\ Idle
    /\ \E saved \in {save_solution(board, output[1])} :
          /\ call' = [op |-> "save_solution", args |-> <<"output">>,
                      raised |-> saved.raised, ret |-> Nothing]
          /\ output' = <<saved.file>>
    /\ UNCHANGED <<board, puzzle, use_forward_checking, selection, assignments,
                   backtracks, stack, result, runs, files, log, pc>>

\* load_puzzle(path) on the output as it was written
LoadOutput ==
    /\ Idle
    /\ output[1] # NoFile
    /\ \E loaded \in {load_puzzle(output[1])} :
          call' = [op |-> "load_puzzle", args |-> <<"output">>,
                   raised |-> loaded.raised, detail |-> loaded.detail,
                   ret |-> loaded.ret]
    /\ UNCHANGED <<board, puzzle, use_forward_checking, selection, assignments,
                   backtracks, stack, result, runs, files, log, output, pc>>

\* the 17 rows of dots of the input file the puzzle came from
dot_rows(b) == SubSeq(puzzle_file(b), GRID_SIZE + 1, 3 * GRID_SIZE - 1)

\* load_puzzle on a file made of the output and, after it, the rows of dots
\* of the puzzle
LoadOutputWithDots ==
    /\ Idle
    /\ output[1] # NoFile
    /\ \E loaded \in {load_puzzle(output[1] \o dot_rows(puzzle))} :
          call' = [op |-> "load_puzzle", args |-> <<"output", "dots">>,
                   raised |-> loaded.raised, detail |-> loaded.detail,
                   ret |-> loaded.ret]
    /\ UNCHANGED <<board, puzzle, use_forward_checking, selection, assignments,
                   backtracks, stack, result, runs, files, log, output, pc>>

WriterInit ==
    /\ \E blank \in SUBSET Region : \E o \in Overwrites :
          /\ Cardinality(blank) <= MaxEmpty
          /\ puzzle = MakePuzzle(blank, o)
    /\ board = copy(puzzle)
    /\ use_forward_checking = FALSE
    /\ selection = "mrv"
    /\ assignments = 0
    /\ backtracks = 0
    /\ stack = <<>>
    /\ result = "none"
    /\ runs = <<>>
    /\ call = NoCall
    /\ files = <<>>
    /\ log = <<>>
    /\ output = <<NoFile>>
    /\ pc = "client"

WriterNext ==
    \/ SaveSolution
    \/ LoadOutput
    \/ LoadOutputWithDots
    \/ ClientSolve
    \/ Enter
    \/ Loop
    \/ Return
    \/ ClientSolved

WriterSpec == WriterInit /\ [][WriterNext]_vars

---------------------------------------------------------------------------
(* Puzzles without a dot: both dot matrices hold NO_DOT everywhere.  Their *)
(* clues come from a grid in which no two orthogonal neighbours are        *)
(* consecutive or one the double of the other, so that the loader accepts  *)
(* them.                                                                   *)

ZeroDotsRows ==
    << <<1, 3, 8, 2, 5, 7, 4, 6, 9>>,
       <<7, 5, 2, 6, 9, 4, 1, 8, 3>>,
       <<4, 9, 6, 8, 3, 1, 5, 2, 7>>,
       <<6, 4, 9, 3, 1, 8, 2, 7, 5>>,
       <<2, 7, 5, 9, 4, 6, 8, 3, 1>>,
       <<8, 1, 3, 5, 7, 2, 6, 9, 4>>,
       <<3, 8, 1, 7, 2, 5, 9, 4, 6>>,
       <<5, 2, 7, 4, 6, 9, 3, 1, 8>>,
       <<9, 6, 4, 1, 8, 3, 7, 5, 2>> >>

\* the cells a puzzle without dots may leave empty
ZeroDotsRegion == {<<0, 0>>, <<0, 1>>, <<0, 2>>, <<5, 0>>, <<5, 2>>, <<6, 0>>}

ZeroDotsPuzzle(blank) ==
    [NewBoard EXCEPT !.grid =
        [r \in range(GRID_SIZE) |-> [c \in range(GRID_SIZE) |->
            IF <<r, c>> \in blank THEN EMPTY_CELL ELSE ZeroDotsRows[r + 1][c + 1]]]]

ZeroDotsInit ==
    /\ \E blank \in SUBSET ZeroDotsRegion :
          /\ Cardinality(blank) <= MaxEmpty
          /\ puzzle = ZeroDotsPuzzle(blank)
    /\ board = copy(puzzle)
    /\ use_forward_checking \in BOOLEAN
    /\ selection = "mrv"
    /\ assignments = 0
    /\ backtracks = 0
    /\ stack = <<>>
    /\ result = "none"
    /\ runs = <<>>
    /\ call = NoCall
    /\ files = <<>>
    /\ log = <<>>
    /\ output = <<NoFile>>
    /\ pc = "client"

ZeroDotsNext ==
    \/ ClientSolve
    \/ Enter
    \/ Loop
    \/ Return
    \/ ClientSolved

ZeroDotsSpec == ZeroDotsInit /\ [][ZeroDotsNext]_vars

---------------------------------------------------------------------------
(* The completely empty board, Board() as constructed: no clue and no dot. *)
(* It is searched next to the puzzles without dots above, with forward     *)
(* checking on and off.                                                    *)

EmptyGridInit ==
    /\ \E blank \in {range(GRID_SIZE) \X range(GRID_SIZE)} \cup SUBSET ZeroDotsRegion :
          /\ blank \subseteq ZeroDotsRegion => Cardinality(blank) <= MaxEmpty
          /\ puzzle = ZeroDotsPuzzle(blank)
    /\ board = copy(puzzle)
    /\ use_forward_checking \in BOOLEAN
    /\ selection = "mrv"
    /\ assignments = 0
    /\ backtracks = 0
    /\ stack = <<>>
    /\ result = "none"
    /\ runs = <<>>
    /\ call = NoCall
    /\ files = <<>>
    /\ log = <<>>
    /\ output = <<NoFile>>
    /\ pc = "client"

EmptyGridNext ==
    \/ ClientSolve
    \/ Enter
    \/ Loop
    \/ Return
    \/ ClientSolved

EmptyGridSpec == EmptyGridInit /\ [][EmptyGridNext]_vars

---------------------------------------------------------------------------
(* Two engines on identical copies of one board, the first without and the *)
(* second with forward checking, both with the selection of the code.  The *)
(* board is a puzzle with dots, a puzzle without dots or the empty board.  *)

\* the engines compared: the configurations with the selection of the code,
\* Configs[1] and Configs[2]
Twins == Cardinality({k \in DOMAIN Configs : Configs[k].selection = "mrv"})

TwinSolve ==
    /\ Len(runs) < Twins
    /\ Solve

\* the first engine has returned: its outcome is kept and the second engine
\* is built on a fresh copy; the outcome of the second is kept likewise
TwinNextRun ==
    /\ Len(runs) < Twins
    /\ NextRun

TwinInit ==
    /\ \/ \E blank \in SUBSET Region : \E o \in Overwrites :
             /\ Cardinality(blank) <= MaxEmpty
             /\ puzzle = MakePuzzle(blank, o)
       \/ \E blank \in {range(GRID_SIZE) \X range(GRID_SIZE)} \cup SUBSET ZeroDotsRegion :
             /\ blank \subseteq ZeroDotsRegion => Cardinality(blank) <= MaxEmpty
             /\ puzzle = ZeroDotsPuzzle(blank)
    /\ board = copy(puzzle)
    /\ use_forward_checking = Configs[1].forward_checking
    /\ selection = Configs[1].selection
    /\ assignments = 0
    /\ backtracks = 0
    /\ stack = <<>>
    /\ result = "none"
    /\ runs = <<>>
    /\ call = NoCall
    /\ files = <<>>
    /\ log = <<>>
    /\ output = <<>>
    /\ pc = "solve"

TwinNext ==
    \/ TwinSolve
    \/ Enter
    \/ Loop
    \/ Return
    \/ TwinNextRun

TwinSpec == TwinInit /\ [][TwinNext]_vars

---------------------------------------------------------------------------
(* src/main.py: the batch driver.  main builds one solver and hands it to  *)
(* process_file for every input file in sorted order.  The input files are *)
(* named by their rank in that order.                                      *)

\* the input files of a batch
MaxFiles == 2

NoOverwrite == [kind |-> "none", row |-> 0, col |-> 0, value |-> 0]

\* a puzzle with two empty cells, as its file holds it
GoodFile == puzzle_file(MakePuzzle({<<0, 6>>, <<0, 7>>}, NoOverwrite))

\* what the data directory holds: puzzles with and without a solution, a
\* full grid, clue sets that contradict themselves, and files that depart
\* from the layout
FileText ==
    [name \in 1..18 |->
        CASE name = 1 -> GoodFile
          [] name = 2 -> \* consistent clues, no solution
                 puzzle_file(MakePuzzle({<<5, 6>>, <<6, 6>>},
                     [kind |-> "v", row |-> 5, col |-> 6, value |-> NO_DOT]))
          [] name = 3 -> \* nothing left to fill
                 puzzle_file(MakePuzzle({}, NoOverwrite))
          [] name = 4 -> \* 9 twice in a row
                 puzzle_file(MakePuzzle({<<0, 6>>},
                     [kind |-> "clue", row |-> 3, col |-> 8, value |-> 9]))
          [] name = 5 -> \* 4 and 8 side by side with no dot between them
                 puzzle_file(MakePuzzle({<<0, 6>>},
                     [kind |-> "h", row |-> 3, col |-> 7, value |-> NO_DOT]))
          [] name = 6 -> \* the last row of vertical dots is missing
                 SubSeq(GoodFile, 1, Len(GoodFile) - 1)
          [] name = 7 -> \* one row more than the layout has
                 Append(GoodFile, GoodFile[Len(GoodFile)])
          [] name = 8 -> \* an empty line between the grid and the dots
                 SubSeq(GoodFile, 1, GRID_SIZE) \o << <<>> >>
                     \o SubSeq(GoodFile, GRID_SIZE + 1, Len(GoodFile))
          [] name = 9 -> \* a grid row of 8 tokens
                 [GoodFile EXCEPT ![3] = SubSeq(@, 1, GRID_SIZE - 1)]
          [] name = 10 -> \* a row of horizontal dots of 9 tokens
                 [GoodFile EXCEPT ![GRID_SIZE + 2] = Append(@, "0")]
          [] name = 11 -> \* a value above 9
                 [GoodFile EXCEPT ![1][7] = "10"]
          [] name = 12 -> \* a token that is no number
                 [GoodFile EXCEPT ![1][8] = "x"]
          [] name = 13 -> \* a dot that is none of 0, 1, 2
                 [GoodFile EXCEPT ![2 * GRID_SIZE + 1][1] = "3"]
          [] name = 14 -> \* six empty cells
                 puzzle_file(MakePuzzle(Region \ {<<3, 7>>}, NoOverwrite))
          [] name = 15 -> \* 7 twice in a block, in different rows and columns
                 puzzle_file(MakePuzzle({<<0, 6>>},
                     [kind |-> "clue", row |-> 1, col |-> 8, value |-> 7]))
          [] name = 16 -> \* 6 and 5 side by side with a black dot
                 puzzle_file(MakePuzzle({<<0, 6>>},
                     [kind |-> "h", row |-> 6, col |-> 6, value |-> BLACK_DOT]))
          [] name = 17 -> \* 4 and 8 side by side with a white dot
                 puzzle_file(MakePuzzle({<<0, 6>>},
                     [kind |-> "h", row |-> 3, col |-> 7, value |-> WHITE_DOT]))
          [] OTHER -> \* 7 above 6 with a black dot
                 puzzle_file(MakePuzzle({<<0, 6>>},
                     [kind |-> "v", row |-> 5, col |-> 6, value |-> BLACK_DOT]))]

FileNames == DOMAIN FileText

\* what load_puzzle makes of each file
Loaded == [name \in FileNames |-> load_puzzle(FileText[name])]

\* the file process_file is called with next
Current == Len(log) + 1

\* process_file has returned: what it logged and the value it returned
Logged(outcome, returned) ==
    log' = Append(log, [file |-> files[Current], outcome |-> outcome,
                        returned |-> returned])

\* process_file that lets the ValueError of the loader escape: main ends
LoadPuzzle_not_caught ==
    /\ pc = "load"
    /\ Current <= Len(files)
    /\ \E loaded \in {Loaded[files[Current]]} :
          /\ call' = [op |-> "load_puzzle", args |-> <<files[Current]>>,
                      raised |-> loaded.raised, detail |-> loaded.detail,
                      ret |-> loaded.ret]
          /\ IF loaded.raised # "none"
             THEN /\ pc' = "done"
                  /\ UNCHANGED <<board, puzzle, log>>
             ELSE /\ board' = loaded.ret
                  /\ puzzle' = loaded.ret
                  /\ pc' = "solve"
                  /\ UNCHANGED log
    /\ UNCHANGED <<use_forward_checking, selection, assignments, backtracks,
                   stack, result, runs, files, output>>

\* process_file up to the call of solve: load_puzzle returns the board, or
\* raises ValueError, which is logged as "Invalid input"
LoadPuzzle ==
    /\ pc = "load"
    /\ Current <= Len(files)
    /\ \E loaded \in {Loaded[files[Current]]} :
          /\ call' = [op |-> "load_puzzle", args |-> <<files[Current]>>,
                      raised |-> loaded.raised, detail |-> loaded.detail,
                      ret |-> loaded.ret]
          /\ IF loaded.raised # "none"
             THEN /\ Logged("Invalid input", FALSE)
                  /\ UNCHANGED <<board, puzzle, pc>>
             ELSE /\ board' = loaded.ret
                  /\ puzzle' = loaded.ret
                  /\ pc' = "solve"
                  /\ UNCHANGED log
    /\ UNCHANGED <<use_forward_checking, selection, assignments, backtracks,
                   stack, result, runs, files, output>>

\* solver.solve(board) is called
BatchSolve ==
    /\ pc = "solve"
    /\ Solve

\* solve has returned or raised: the solution is saved, or the failure
\* logged, and process_file returns
SolveReturned ==
    /\ pc = "solve"
    /\ Returned
    /\ \E saved \in {save_solution(board, output[Current])} :
          IF result = "True"
          THEN IF saved.raised = "none"
               THEN /\ output' = [output EXCEPT ![Current] = saved.file]
                    /\ Logged("Puzzle solved successfully", TRUE)
               ELSE /\ Logged("Invalid input", FALSE)
                    /\ UNCHANGED output
          ELSE /\ Logged(IF result = "False" THEN "Failed to solve" ELSE "Invalid input",
                         FALSE)
               /\ UNCHANGED output
    /\ result' = "none"
    /\ pc' = "load"
    /\ UNCHANGED <<board, puzzle, use_forward_checking, selection, assignments,
                   backtracks, stack, runs, call, files>>

\* the loop over the input files has ended: "All puzzles processed"
AllProcessed ==
    /\ pc = "load"
    /\ Current > Len(files)
    /\ pc' = "done"
    /\ UNCHANGED <<board, puzzle, use_forward_checking, selection, assignments,
                   backtracks, stack, result, runs, call, files, log, output>>

\* the batches: the files of a directory in sorted order
Batches ==
    {<<a>> : a \in FileNames}
    \cup {batch \in UNION {[1..n -> FileNames] : n \in 2..MaxFiles} :
             \A k \in 1..(Len(batch) - 1) : batch[k] < batch[k + 1]}

BatchInit ==
    /\ files \in Batches
    /\ use_forward_checking \in BOOLEAN
    /\ selection = "mrv"
    /\ assignments = 0
    /\ backtracks = 0
    /\ board = NewBoard
    /\ puzzle = NewBoard
    /\ stack = <<>>
    /\ result = "none"
    /\ runs = <<>>
    /\ call = NoCall
    /\ log = <<>>
    /\ output = [k \in 1..Len(files) |-> NoFile]
    /\ pc = "load"

BatchNext ==
    \/ LoadPuzzle
    \/ BatchSolve
    \/ Enter
    \/ Loop
    \/ Return
    \/ SolveReturned
    \/ AllProcessed

BatchSpec == BatchInit /\ [][BatchNext]_vars

\* the interpreter runs main without pause
FairBatchSpec == BatchSpec /\ WF_vars(BatchNext)

---------------------------------------------------------------------------
(* The rules of Kropki Sudoku, stated on their own for the properties.     *)

Cells == range(GRID_SIZE) \X range(GRID_SIZE)

\* the 27 units: rows, columns and blocks, each a set of cells
Units ==
    {{<<r, c>> : c \in range(GRID_SIZE)} : r \in range(GRID_SIZE)}
    \cup {{<<r, c>> : r \in range(GRID_SIZE)} : c \in range(GRID_SIZE)}
    \cup {{<<BLOCK_SIZE * br + i, BLOCK_SIZE * bc + j>> : i \in range(BLOCK_SIZE),
                                                          j \in range(BLOCK_SIZE)} :
             br \in range(BLOCK_SIZE), bc \in range(BLOCK_SIZE)}

\* the relation a dot demands of the two values it lies between
Related(dot, x, y) ==
    LET consecutive == x - y = 1 \/ y - x = 1
        double      == x = y + y \/ y = x + x
    IN  CASE dot = WHITE_DOT -> consecutive
          [] dot = BLACK_DOT -> double
          [] OTHER           -> ~consecutive /\ ~double

\* no value twice among the filled cells of a unit, and every dot between
\* two filled cells respected
NoConflict(b) ==
    /\ \A U \in Units :
          Cardinality({b.grid[p[1]][p[2]] : p \in U} \ {0})
              = Cardinality({p \in U : b.grid[p[1]][p[2]] # 0})
    /\ \A r \in range(GRID_SIZE) : \A c \in range(GRID_SIZE - 1) :
          b.grid[r][c] # 0 /\ b.grid[r][c + 1] # 0
              => Related(b.horizontal_dots[r][c], b.grid[r][c], b.grid[r][c + 1])
    /\ \A r \in range(GRID_SIZE - 1) : \A c \in range(GRID_SIZE) :
          b.grid[r][c] # 0 /\ b.grid[r + 1][c] # 0
              => Related(b.vertical_dots[r][c], b.grid[r][c], b.grid[r + 1][c])

\* a full grid that satisfies every row, column, block and dot constraint
IsSolution(b) ==
    /\ \A U \in Units : {b.grid[p[1]][p[2]] : p \in U} = 1..9
    /\ \A r \in range(GRID_SIZE) : \A c \in range(GRID_SIZE - 1) :
          Related(b.horizontal_dots[r][c], b.grid[r][c], b.grid[r][c + 1])
    /\ \A r \in range(GRID_SIZE - 1) : \A c \in range(GRID_SIZE) :
          Related(b.vertical_dots[r][c], b.grid[r][c], b.grid[r + 1][c])

EmptyCells(b) == {p \in Cells : b.grid[p[1]][p[2]] = 0}

\* the full assignments that extend b and satisfy every constraint.  Only the
\* values a row lacks are tried in its empty cells: a row of a solution
\* holds every value once.
RECURSIVE SolutionsFrom(_, _)
SolutionsFrom(b, cells) ==
    IF cells = {} THEN (IF IsSolution(b) THEN {b.grid} ELSE {})
    ELSE LET p == CHOOSE x \in cells : TRUE
             lacking == (1..9) \ {b.grid[p[1]][c] : c \in range(GRID_SIZE)}
         IN  UNION {SolutionsFrom([b EXCEPT !.grid[p[1]][p[2]] = v], cells \ {p}) :
                        v \in lacking}

Solutions(b) == SolutionsFrom(b, EmptyCells(b))

Solvable(b) == Solutions(b) # {}

\* the orthogonal neighbours of a cell that lie on the grid
Neighbours(p) ==
    {<<p[1] - 1, p[2]>>, <<p[1] + 1, p[2]>>, <<p[1], p[2] - 1>>, <<p[1], p[2] + 1>>}
        \cap Cells

\* the dot between two orthogonally adjacent cells
DotLink(b, p, q) ==
    IF p[1] = q[1]
    THEN b.horizontal_dots[p[1]][IF p[2] < q[2] THEN p[2] ELSE q[2]]
    ELSE b.vertical_dots[IF p[1] < q[1] THEN p[1] ELSE q[1]][p[2]]

\* every filled neighbour of p stands in the relation of its dot to v
DotsAccept(b, p, v) ==
    \A q \in Neighbours(p) :
        b.grid[q[1]][q[2]] # 0 => Related(DotLink(b, p, q), v, b.grid[q[1]][q[2]])

\* the cells of the row, the column and the block of p
House == [p \in Cells |-> UNION {U \in Units : p \in U}]

\* the cells the row/column/block check is asked about: those a puzzle may
\* leave empty or overwrite, and some that are always filled
ProbeCells == Region \cup {<<1, 8>>, <<3, 8>>, <<0, 0>>, <<4, 4>>, <<8, 8>>}

\* v occurs in no cell of the row, column or block of p other than p
FreeAmongOthers(b, p, v) ==
    \A q \in House[p] \ {p} : b.grid[q[1]][q[2]] # v

\* v occurs in no cell of the row, column or block of p, p included
FreeInHouse(b, p, v) ==
    \A q \in House[p] : b.grid[q[1]][q[2]] # v

---------------------------------------------------------------------------
(* Properties *)

\* C1 as stated: for every board, solve returns true if and only if some full
\* assignment extends the pre-filled cells and satisfies every row, column,
\* block and dot constraint.
C1_TrueIffSolvable_AnyBoard ==
    Returned => (result = "True" <=> Solvable(puzzle))

\* C1 amended: for every board whose pre-filled clues are mutually
\* consistent, solve returns true if and only if some full assignment extends
\* the pre-filled cells and satisfies every constraint.
C1_TrueIffSolvable ==
    (Returned /\ NoConflict(puzzle)) => (result = "True" <=> Solvable(puzzle))

\* both outcomes after a real search: an unsolvable consistent puzzle
\* answered false after assignments were tried
C1_Witness ==
    /\ Returned
    /\ NoConflict(puzzle)
    /\ result = "False"
    /\ ~Solvable(puzzle)
    /\ assignments > 1

\* C2: whenever solve returns false, the grid and both dot matrices are what
\* they were when solve was called.
C2_FalseLeavesBoardUntouched ==
    (Returned /\ result = "False") => board = puzzle

C2_Witness ==
    /\ Returned
    /\ result = "False"
    /\ assignments > 1
    /\ board = puzzle

\* C3: whenever solve returns true on a board with mutually consistent clues,
\* no cell is empty, every pre-filled cell holds its original value, the dot
\* matrices are unchanged and the grid passes both checks of the verifier.
C3_TrueLeavesVerifiedSolution ==
    (Returned /\ result = "True" /\ NoConflict(puzzle)) =>
        /\ is_complete(board)
        /\ \A p \in Cells :
              puzzle.grid[p[1]][p[2]] # 0
                  => board.grid[p[1]][p[2]] = puzzle.grid[p[1]][p[2]]
        /\ board.horizontal_dots = puzzle.horizontal_dots
        /\ board.vertical_dots = puzzle.vertical_dots
        /\ verify_sudoku_rules(board.grid)
        /\ verify_dot_constraints(puzzle, board.grid)

C3_Witness ==
    /\ Returned
    /\ result = "True"
    /\ NoConflict(puzzle)
    /\ Cardinality(EmptyCells(puzzle)) = MaxEmpty
    /\ verify_sudoku_rules(board.grid)
    /\ verify_dot_constraints(puzzle, board.grid)

\* C4: solve with forward checking returns the same result as solve without
\* it on an identical copy of the board.
C4_ForwardCheckingSameResult ==
    Len(runs) >= 2 =>
        /\ runs[1].forward_checking = FALSE
        /\ runs[2].forward_checking = TRUE
        /\ runs[1].selection = runs[2].selection
        /\ runs[1].result = runs[2].result

\* forward checking cut the search short, and both runs agree on failure
C4_Witness ==
    /\ Len(runs) >= 2
    /\ runs[2].forward_checking
    /\ runs[2].result = "False"
    /\ runs[1].result = "False"
    /\ runs[2].backtracks > 1
    /\ runs[2].assignments = runs[1].assignments

\* C5: for every empty cell and every value 1-9 the dot check accepts the
\* value exactly when each orthogonal neighbour holding a nonzero value stands
\* in the relation of the dot between them (WHITE: differ by 1, BLACK: one
\* the double of the other, NONE: neither); neighbours holding 0 never reject.
C5_DotCheckIsTheDotRelation ==
    \A p \in EmptyCells(board) : \A v \in VALID_DIGITS :
        is_valid_dot_move(board, p[1], p[2], v) <=> DotsAccept(board, p, v)

\* during the search: an empty cell with a filled and an empty neighbour,
\* where a NONE dot alone rejects a value
C5_Witness ==
    \E p \in EmptyCells(board) : \E q \in Neighbours(p) : \E v \in VALID_DIGITS :
        /\ stack # <<>>
        /\ assignments > 0
        /\ Neighbours(p) \cap EmptyCells(board) # {}
        /\ board.grid[q[1]][q[2]] # 0
        /\ DotLink(board, p, q) = NO_DOT
        /\ ~Related(NO_DOT, v, board.grid[q[1]][q[2]])
        /\ \A n \in Neighbours(p) \ {q} :
              board.grid[n[1]][n[2]] # 0
                  => Related(DotLink(board, p, n), v, board.grid[n[1]][n[2]])
        /\ ~is_valid_dot_move(board, p[1], p[2], v)

\* C6: the domain of an empty cell is exactly the set of values 1-9 that the
\* row/column/block check and the dot check both accept, the domain of a
\* non-empty cell is empty, and an empty cell joined by a BLACK dot to a
\* neighbour holding 8 has a domain contained in {4}.
C6_DomainIsAcceptedValues ==
    /\ \A p \in Cells :
          get_valid_values(board, p[1], p[2]) =
              IF board.grid[p[1]][p[2]] = 0
              THEN {v \in 1..9 : FreeAmongOthers(board, p, v) /\ DotsAccept(board, p, v)}
              ELSE {}
    /\ \A p \in EmptyCells(board) : \A q \in Neighbours(p) :
          (board.grid[q[1]][q[2]] = 8 /\ DotLink(board, p, q) = BLACK_DOT)
              => get_valid_values(board, p[1], p[2]) \subseteq {4}

\* during the search: an empty cell joined by a BLACK dot to an 8, with
\* domain {4}
C6_Witness ==
    \E p \in EmptyCells(board) : \E q \in Neighbours(p) :
        /\ stack # <<>>
        /\ assignments > 0
        /\ board.grid[q[1]][q[2]] = 8
        /\ DotLink(board, p, q) = BLACK_DOT
        /\ get_valid_values(board, p[1], p[2]) = {4}

\* C7 as stated: with a value 1-9 the row/column/block check is true exactly
\* when the value occurs in no cell of the row, column or block other than
\* the target cell, whose own content is ignored; with 0 it is always true.
C7_TargetCellIgnored ==
    \A p \in ProbeCells :
        /\ is_valid_sudoku_move(board, p[1], p[2], 0)
        /\ \A v \in 1..9 :
              is_valid_sudoku_move(board, p[1], p[2], v) <=> FreeAmongOthers(board, p, v)

\* C7 amended: with a value 1-9 the row/column/block check is true exactly
\* when the value occurs in no cell of the row, column or block, the target
\* cell included; with 0 it is always true.
C7_TargetCellCounted ==
    \A p \in ProbeCells :
        /\ is_valid_sudoku_move(board, p[1], p[2], 0)
        /\ \A v \in 1..9 :
              is_valid_sudoku_move(board, p[1], p[2], v) <=> FreeInHouse(board, p, v)

\* while the search is under way: a filled cell whose value occurs nowhere
\* else in its row, column and block, and an empty cell with a value that
\* only its block holds
C7_Witness ==
    /\ stack # <<>>
    /\ \E p \in ProbeCells \ EmptyCells(board) :
          /\ p \in EmptyCells(puzzle)
          /\ FreeAmongOthers(board, p, board.grid[p[1]][p[2]])
          /\ ~is_valid_sudoku_move(board, p[1], p[2], board.grid[p[1]][p[2]])
    /\ \E p \in ProbeCells \cap EmptyCells(board) : \E v \in 1..9 :
          /\ \A i \in range(GRID_SIZE) : board.grid[p[1]][i] # v /\ board.grid[i][p[2]] # v
          /\ ~FreeInHouse(board, p, v)
          /\ ~is_valid_sudoku_move(board, p[1], p[2], v)

\* C8: starting from a board with mutually consistent clues, in every state
\* reachable during solve no value occurs twice among the filled cells of a
\* row, column or block, every two adjacent filled cells stand in the relation
\* of the dot between them, and a cell linked by a WHITE dot to a pre-filled 5
\* holds 0, 4 or 6.
C8_BoardStaysConsistent ==
    NoConflict(puzzle) =>
        /\ NoConflict(board)
        /\ \A p \in Cells : \A q \in Neighbours(p) :
              (puzzle.grid[q[1]][q[2]] = 5 /\ DotLink(puzzle, p, q) = WHITE_DOT)
                  => board.grid[p[1]][p[2]] \in {0, 4, 6}

\* deep in the search, a cell the puzzle left empty beside a pre-filled 5
\* across a WHITE dot has been given a value
C8_Witness ==
    /\ NoConflict(puzzle)
    /\ Len(stack) > 2
    /\ \E p \in EmptyCells(puzzle) : \E q \in Neighbours(p) :
          /\ puzzle.grid[q[1]][q[2]] = 5
          /\ DotLink(puzzle, p, q) = WHITE_DOT
          /\ board.grid[p[1]][p[2]] \in {4, 6}

\* C9 as stated: for a solvable puzzle, search with plain selection and search
\* with MRV+degree selection both return true and leave an identical grid.
C9_SameGrid ==
    (Len(runs) = Len(Configs) /\ Solvable(puzzle)) =>
        /\ runs[1].selection = "mrv" /\ runs[3].selection = "plain"
        /\ runs[1].forward_checking = runs[3].forward_checking
        /\ runs[1].result = "True"
        /\ runs[3].result = "True"
        /\ runs[1].grid = runs[3].grid

\* C9 amended: for a solvable puzzle, search with plain selection and search
\* with MRV+degree selection both return true and each leaves a grid that is
\* a solution of the puzzle; the two grids are identical when the puzzle has
\* exactly one solution.
C9_BothSolve ==
    (Len(runs) = Len(Configs) /\ Solvable(puzzle)) =>
        /\ runs[1].selection = "mrv" /\ runs[3].selection = "plain"
        /\ runs[1].forward_checking = runs[3].forward_checking
        /\ runs[1].result = "True"
        /\ runs[3].result = "True"
        /\ runs[1].grid \in Solutions(puzzle)
        /\ runs[3].grid \in Solutions(puzzle)
        /\ (Cardinality(Solutions(puzzle)) = 1 => runs[1].grid = runs[3].grid)

\* a puzzle with two solutions: the two selections end on different ones,
\* after different numbers of assignments
C9_Witness ==
    /\ Len(runs) = Len(Configs)
    /\ Cardinality(Solutions(puzzle)) = 2
    /\ runs[1].result = "True"
    /\ runs[3].result = "True"
    /\ {runs[1].grid, runs[3].grid} = Solutions(puzzle)
    /\ runs[1].assignments # runs[3].assignments

\* C10: for every well-formed board, unsolvable ones included, solve
\* terminates and returns a boolean: no position or value error is ever
\* raised from inside the search, and every call of solve returns.
C10_TerminatesWithBoolean ==
    /\ [](result \in {"none", "True", "False"})
    /\ [](stack # <<>> => <>Returned)
    /\ <>(Len(runs) = Len(Configs))

\* an unsolvable puzzle answered false once the search space is exhausted
C10_Witness ==
    /\ Returned
    /\ ~Solvable(puzzle)
    /\ result = "False"
    /\ backtracks > 2
    /\ assignments = backtracks


---------------------------------------------------------------------------
(* The Board as its callers see it.                                        *)

\* the methods that take a (row, col) position
PositionOps == {"get_value", "set_value", "is_empty", "get_block_index",
                "get_horizontal_dot", "get_vertical_dot",
                "set_horizontal_dot", "set_vertical_dot"}

\* the messages of the out-of-range errors
OutOfRange == {"Invalid position", "Invalid block indices",
               "Invalid row index", "Invalid column index"}

InRange(x, n) == 0 <= x /\ x < n

\* the arguments of the recorded call that are row, column or block indices
\* are all inside their range
IndicesInRange ==
    CASE call.op \in PositionOps -> InRange(call.args[1], GRID_SIZE)
                                    /\ InRange(call.args[2], GRID_SIZE)
      [] call.op = "get_block" -> InRange(call.args[1], 3) /\ InRange(call.args[2], 3)
      [] call.op \in {"get_row", "get_column"} -> InRange(call.args[1], GRID_SIZE)
      [] OTHER -> TRUE

\* the recorded call without the value it returned
Made == <<call.op, call.args, call.raised>>

\* C11: a Board method given a row or column outside [0,9), or get_block
\* given a block index outside [0,3), fails with an out-of-range error;
\* set_value given a value outside 0..9 fails with an invalid-value error;
\* a dot setter given a value outside {NONE, WHITE, BLACK} fails with an
\* invalid-dot error; and a call that fails leaves the grid and both dot
\* matrices as they were.
C11_BadArgumentsRejected ==
    /\ [](~IndicesInRange => call.raised \in OutOfRange)
    /\ [](call.op = "set_value" /\ IndicesInRange /\ call.args[3] \notin 0..9
            => call.raised = "Invalid value")
    /\ []((call.op \in {"set_horizontal_dot", "set_vertical_dot"} /\ IndicesInRange
            /\ call.args[3] \notin {NO_DOT, WHITE_DOT, BLACK_DOT})
           => call.raised = "Invalid dot value")
    /\ [][Made' # Made /\ call'.raised # "none" => board' = board]_vars

\* each kind of error has been raised, by a setter too, on a board that
\* earlier calls have changed
C11_Witness ==
    /\ call.op = "set_vertical_dot"
    /\ call.raised = "Invalid dot value"
    /\ board.grid[7][8] = MAX_VALUE
    /\ board.horizontal_dots[8][7] = BLACK_DOT

\* C12: whatever Board methods have been called, failing ones included, and
\* whether or not solve has run, every cell of the grid holds a value in
\* 0..9, every stored dot is NONE, WHITE or BLACK, the horizontal dot matrix
\* is 9x8 and the vertical one 8x9.
C12_BoardWellFormed ==
    /\ DOMAIN board.grid = range(9)
    /\ \A r \in range(9) :
          /\ DOMAIN board.grid[r] = range(9)
          /\ \A c \in range(9) : board.grid[r][c] \in 0..9
    /\ DOMAIN board.horizontal_dots = range(9)
    /\ \A r \in range(9) :
          /\ DOMAIN board.horizontal_dots[r] = range(8)
          /\ \A c \in range(8) :
                board.horizontal_dots[r][c] \in {NO_DOT, WHITE_DOT, BLACK_DOT}
    /\ DOMAIN board.vertical_dots = range(8)
    /\ \A r \in range(8) :
          /\ DOMAIN board.vertical_dots[r] = range(9)
          /\ \A c \in range(9) :
                board.vertical_dots[r][c] \in {NO_DOT, WHITE_DOT, BLACK_DOT}

\* solve has filled a cell of a board on which the setters had stored a
\* value and a dot
C12_Witness ==
    /\ call.op = "solve"
    /\ assignments > 0
    /\ board.grid[7][8] = MAX_VALUE
    /\ board.vertical_dots[7][8] = BLACK_DOT

\* the recorded call is a dot call at the outer edge: a horizontal dot in
\* the last column or a vertical dot in the last row, at a valid position
AtEdge(c) ==
    /\ c.op \in PositionOps
    /\ InRange(c.args[1], GRID_SIZE)
    /\ InRange(c.args[2], GRID_SIZE)
    /\ \/ c.op \in {"get_horizontal_dot", "set_horizontal_dot"} /\ c.args[2] = GRID_SIZE - 1
       \/ c.op \in {"get_vertical_dot", "set_vertical_dot"} /\ c.args[1] = GRID_SIZE - 1

\* C13: the horizontal dot at column 8 and the vertical dot at row 8 are
\* always returned as NONE, without error, whatever was called before; a dot
\* setter called there with a dot value succeeds and stores nothing.
C13_EdgeDotIsNone ==
    /\ [](call.op \in {"get_horizontal_dot", "get_vertical_dot"} /\ AtEdge(call)
            => call.raised = "none" /\ call.ret = NO_DOT)
    /\ []((call.op \in {"set_horizontal_dot", "set_vertical_dot"} /\ AtEdge(call)
            /\ call.args[3] \in {NO_DOT, WHITE_DOT, BLACK_DOT})
           => call.raised = "none")
    /\ [][(Made' # Made /\ call'.op \in {"set_horizontal_dot", "set_vertical_dot"}
           /\ AtEdge(call'))
          => board' = board]_vars

\* a black dot has been set in the last column, on a board that holds a
\* black dot elsewhere, and the call returned
C13_Witness ==
    /\ call.op = "set_horizontal_dot"
    /\ call.args = <<7, 8, BLACK_DOT>>
    /\ call.raised = "none"
    /\ board.vertical_dots[7][8] = BLACK_DOT

---------------------------------------------------------------------------
(* The writer and the loader.                                              *)

\* the text of a grid: 9 rows of 9 digits
GridText(b) ==
    [r \in 1..9 |-> [c \in 1..9 |-> str(b.grid[r - 1][c - 1])]]

\* C17: save_solution on a board with an empty cell raises and leaves the
\* output path as it was, so nothing is written; on a complete board it
\* returns and the output is the 9 rows of the grid and nothing else.
C17_WriterRefusesIncomplete ==
    [][(Made' # Made /\ call'.op = "save_solution")
       => IF \E p \in Cells : board.grid[p[1]][p[2]] = EMPTY_CELL
          THEN call'.raised = "Cannot save incomplete solution" /\ output' = output
          ELSE /\ call'.raised = "none"
               /\ Len(output'[1]) = 9
               /\ output'[1] = GridText(board)]_vars

\* the writer has refused a board with an empty cell after it had written
\* nothing yet
C17_Witness ==
    /\ call.op = "save_solution"
    /\ call.raised = "Cannot save incomplete solution"
    /\ output[1] = NoFile
    /\ \E p \in Cells : board.grid[p[1]][p[2]] = EMPTY_CELL


\* C20 as stated: the output of the writer for a solved board, handed to
\* the loader as it is, loads and gives back the solved grid.
C20_RoundTrip ==
    (call.op = "load_puzzle" /\ call.args = <<"output">> /\ IsSolution(board))
    => (call.raised = "none" /\ call.ret.grid = board.grid)

\* C20: the output of the writer for a solved board holds the 9 grid rows
\* only, so the loader rejects it as too short; followed by the 17 rows of
\* dots of the puzzle it loads, and the board loaded has the solved grid.
C20_RoundTripWithDots ==
    (call.op = "load_puzzle" /\ IsSolution(board))
    => IF call.args = <<"output">>
       THEN call.raised = "Invalid file format" /\ call.detail = "File too short"
       ELSE call.raised = "none" /\ call.ret.grid = board.grid

\* a grid found by the search has been written and read back with the dots
C20_Witness ==
    /\ call.op = "load_puzzle"
    /\ call.args = <<"output", "dots">>
    /\ IsSolution(board)
    /\ assignments > 1
    /\ call.ret.grid = board.grid

---------------------------------------------------------------------------
(* Boards without dots.                                                    *)

\* C19 as stated: without dots the domain of every empty cell is {1..9}
\* minus the values present in its row, column and block.
C19_PlainSudokuDomain ==
    \A p \in EmptyCells(board) :
        get_valid_values(board, p[1], p[2]) = {v \in 1..9 : FreeInHouse(board, p, v)}

\* C19: without dots no white or black check applies, but the absence of a
\* dot is itself checked: the domain of every empty cell is {1..9} minus the
\* values present in its row, column and block, minus the values that are
\* consecutive to, the double of or the half of the value of a filled
\* orthogonal neighbour.
C19_ZeroDotsDomain ==
    \A p \in EmptyCells(board) :
        get_valid_values(board, p[1], p[2]) =
            {v \in 1..9 :
                /\ FreeInHouse(board, p, v)
                /\ \A q \in Neighbours(p) :
                      LET w == board.grid[q[1]][q[2]]
                      IN  w # 0 => /\ v - w # 1 /\ w - v # 1
                                   /\ v # 2 * w /\ w # 2 * v}

\* the search has filled a cell and some empty cell has a value free in its
\* row, column and block that a filled neighbour forbids
C19_Witness ==
    /\ assignments > 0
    /\ \E p \in EmptyCells(board) : \E v \in 1..9 :
          /\ FreeInHouse(board, p, v)
          /\ v \notin get_valid_values(board, p[1], p[2])

---------------------------------------------------------------------------
(* The batch driver.                                                       *)

\* C14: the counters are zero when the solver is built, no step lowers
\* them, and the step that starts a solve call leaves them as the earlier
\* calls left them: on a solver used for several files each counter is the
\* total over the calls made so far.
C14_CountersOnlyGrow ==
    /\ assignments = 0 /\ backtracks = 0
    /\ [][assignments' >= assignments /\ backtracks' >= backtracks]_vars
    /\ [][(stack = <<>> /\ stack' # <<>>)
          => (assignments' = assignments /\ backtracks' = backtracks)]_vars

\* the second solve call of a batch is running; the first returned False,
\* which leaves as many backtracks as assignments, and the second has added
\* assignments to that total
C14_Witness ==
    /\ Len(log) = 1
    /\ log[1].outcome = "Failed to solve"
    /\ stack # <<>>
    /\ backtracks > 0
    /\ assignments > backtracks

\* C15: a board the loader returns has no clue that breaks a row, column,
\* block or dot constraint against the other clues, and the engine only
\* ever runs on such a board: a file whose clues contradict each other is
\* rejected with an error.
C15_ConflictingCluesRejected ==
    /\ (call.op = "load_puzzle" /\ call.raised = "none") => NoConflict(call.ret)
    /\ (call.op = "load_puzzle" /\ call.raised # "none") => call.ret = Nothing
    /\ (pc = "solve" \/ stack # <<>>) => NoConflict(puzzle)

\* a file with two clues that break a dot constraint has been rejected, after
\* a file that was solved
C15_Witness ==
    /\ call.op = "load_puzzle"
    /\ call.raised = "Invalid file format"
    /\ call.detail = "violates dot constraints"
    /\ Len(log) = 2
    /\ log[1].returned
    /\ log[2].outcome = "Invalid input"

\* the rows of a text are its lines that are not empty; the layout is 9 rows
\* of 9 tokens in 0..9, 9 rows of 8 tokens in {0,1,2}, 8 rows of 9 tokens in
\* {0,1,2}, and nothing else
ExactLayout(text) ==
    LET rows == SelectSeq(text, not_blank)
        digits == {"0", "1", "2", "3", "4", "5", "6", "7", "8", "9"}
    IN  /\ Len(rows) = 26
        /\ \A k \in 1..9 : Len(rows[k]) = 9 /\ \A j \in 1..9 : rows[k][j] \in digits
        /\ \A k \in 10..18 :
              Len(rows[k]) = 8 /\ \A j \in 1..8 : rows[k][j] \in {"0", "1", "2"}
        /\ \A k \in 19..26 :
              Len(rows[k]) = 9 /\ \A j \in 1..9 : rows[k][j] \in {"0", "1", "2"}

\* C16: the loader returns a board only for a file of exactly 9 grid rows of
\* 9 tokens in 0..9, 9 rows of 8 dots and 8 rows of 9 dots, and rejects a
\* file with any other number of rows, any other row length or a token that
\* is out of its domain or no number.
C16_OnlyExactLayoutLoads ==
    (call.op = "load_puzzle" /\ ~ExactLayout(FileText[call.args[1]]))
    => call.raised = "Invalid file format"

---------------------------------------------------------------------------
(* The search on the completely empty board.                               *)

\* the board the solve call was given has no clue and no dot
EmptyGridGiven == puzzle = NewBoard

\* every row, every column and every block of b holds each of 1..9 once
AllUnitsPermutations(b) ==
    \A U \in Units :
        \A v \in MIN_VALUE..MAX_VALUE :
            Cardinality({p \in U : b.grid[p[1]][p[2]] = v}) = 1

\* C21: solve on a completely empty grid with all dots NONE returns true and
\* leaves a complete grid in which every row, column and block is a
\* permutation of 1..9: this holds at the return of backtracking_search and
\* for the client that has taken the result.
C21_EmptyGridSolved ==
    /\ (EmptyGridGiven /\ Returned) =>
          /\ result = "True"
          /\ is_complete(board)
          /\ AllUnitsPermutations(board)
    /\ (EmptyGridGiven /\ Len(runs) >= 1) =>
          /\ runs[1].result = "True"
          /\ is_complete(board)
          /\ AllUnitsPermutations(board)

\* the client holds the result of solve on the empty grid, after a search
\* that had to back out of assignments
C21_Witness ==
    /\ EmptyGridGiven
    /\ Len(runs) >= 1
    /\ call.op = "solve"
    /\ backtracks > 0
    /\ \A p \in Cells : board.grid[p[1]][p[2]] \in MIN_VALUE..MAX_VALUE

---------------------------------------------------------------------------
(* The depth of the recursion: one element of stack per active call of     *)
(* backtrack.                                                              *)

\* C24 as stated: during any solve call the number of simultaneously active
\* search frames never exceeds 81, one frame per grid cell.
C24_AtMostOneFramePerCell ==
    Len(stack) <= GRID_SIZE * GRID_SIZE

\* C24 amended: every active frame but the innermost one holds an assignment
\* to a cell that was empty when solve began, and the innermost one is the
\* call that selects the next cell or finds the grid complete; so the active
\* frames never exceed the number of initially empty cells plus one, that is
\* 82 at most.
C24_AtMostOneFramePerCellPlusOne ==
    /\ Len(stack) <= Cardinality(EmptyCells(puzzle)) + 1
    /\ Len(stack) <= GRID_SIZE * GRID_SIZE + 1
    /\ \A i \in 1..(Len(stack) - 1) :
          /\ stack[i].pc = "wait"
          /\ <<stack[i].row, stack[i].col>> \in EmptyCells(puzzle)
          /\ \A j \in 1..(Len(stack) - 1) :
                i # j => <<stack[i].row, stack[i].col>> # <<stack[j].row, stack[j].col>>

\* the search on the empty grid has filled the 81 cells and the 82nd call of
\* backtrack is active, about to find the grid complete
C24_Witness ==
    /\ EmptyGridGiven
    /\ Len(stack) = GRID_SIZE * GRID_SIZE + 1
    /\ Top.pc = "enter"
    /\ is_complete(board)

---------------------------------------------------------------------------
(* Variable selection, stated from the rules: the domain of an empty cell  *)
(* is what its row, column, block and dots leave; its degree counts the    *)
(* empty cells it shares a unit with, once per unit, and the empty         *)
(* neighbours a WHITE or BLACK dot links it to.                            *)

RuleDomain(b, p) ==
    {v \in MIN_VALUE..MAX_VALUE : FreeInHouse(b, p, v) /\ DotsAccept(b, p, v)}

RuleDegree(b, p) ==
    only({Cardinality({q \in E : q[1] = p[1]})
          + Cardinality({q \in E : q[2] = p[2]})
          + Cardinality({q \in E : /\ q[1] \div BLOCK_SIZE = p[1] \div BLOCK_SIZE
                                   /\ q[2] \div BLOCK_SIZE = p[2] \div BLOCK_SIZE})
          + Cardinality({q \in Neighbours(p) \cap E :
                             DotLink(b, p, q) \in {WHITE_DOT, BLACK_DOT}})
          : E \in {EmptyCells(b) \ {p}}})

RowMajor(p) == GRID_SIZE * p[1] + p[2]

Least(S) == CHOOSE n \in S : \A m \in S : n <= m

Greatest(S) == CHOOSE n \in S : \A m \in S : n >= m

\* the empty cells of least domain size
SmallestDomain(b) ==
    UNION {IF E = {} THEN {}
           ELSE UNION {{p \in E : Cardinality(RuleDomain(b, p)) = least} :
                           least \in {Least({Cardinality(RuleDomain(b, p)) : p \in E})}} :
              E \in {EmptyCells(b)}}

\* among them, those of greatest degree
GreatestDegree(b) ==
    UNION {IF M = {} THEN {}
           ELSE UNION {{p \in M : RuleDegree(b, p) = most} :
                           most \in {Greatest({RuleDegree(b, p) : p \in M})}} :
              M \in {SmallestDomain(b)}}

\* among them, the first in row-major order
FirstOfBest(b) ==
    only(UNION {{p \in G : RowMajor(p) = Least({RowMajor(q) : q \in G})} :
                   G \in {GreatestDegree(b)}})

\* C22: on a board with an empty cell, select_unassigned_variable returns the
\* empty cell of least domain size, among those of greatest degree, among
\* those first in row-major order; it returns None only when the board has no
\* empty cell.  The cell a frame loops over is the cell so selected on its
\* board.
C22_SelectionIsMrvThenDegreeThenFirst ==
    \E selected \in {select_unassigned_variable(board)} :
        IF EmptyCells(board) = {}
        THEN selected = None
        ELSE /\ selected # None
             /\ selected = FirstOfBest(board)
             /\ (selection = "mrv" /\ stack # <<>> /\ Top.pc = "loop")
                   => <<Top.row, Top.col>> = selected

\* a frame loops over the cell selected on its board where all three rules
\* were needed: an empty cell earlier in row-major order has a larger domain,
\* another one of least domain has a smaller degree, a third one ties on both
\* counts and comes later, and a dot adds to the degree of the selected cell
C22_Witness ==
    /\ selection = "mrv"
    /\ stack # <<>>
    /\ Top.pc = "loop"
    /\ <<Top.row, Top.col>> = FirstOfBest(board)
    /\ \E p \in EmptyCells(board) :
          /\ RowMajor(p) < RowMajor(FirstOfBest(board))
          /\ p \notin SmallestDomain(board)
    /\ SmallestDomain(board) # GreatestDegree(board)
    /\ Cardinality(GreatestDegree(board)) >= 2
    /\ \E q \in Neighbours(FirstOfBest(board)) \cap EmptyCells(board) :
          DotLink(board, FirstOfBest(board), q) \in {WHITE_DOT, BLACK_DOT}

---------------------------------------------------------------------------
(* Forward checking, stated from the rules.                                *)

\* the cells forward checking is said to look at after an assignment at p:
\* the other cells of the row, the column and the block of p, and the
\* orthogonal neighbours a dot links to p
Inspected(b, p) ==
    (House[p] \ {p})
        \cup {q \in Neighbours(p) : DotLink(b, p, q) \in {WHITE_DOT, BLACK_DOT}}

\* one of them is empty and no value is left for it
DeadEnd(b, p) ==
    \E q \in Inspected(b, p) :
        b.grid[q[1]][q[2]] = EMPTY_CELL /\ RuleDomain(b, q) = {}

\* the step of backtrack that assigns a value: the only one that raises the
\* assignment counter
Assigns == assignments' = assignments + 1

\* C23: with forward checking enabled, right after a value is assigned at
\* (r,c) the branch is abandoned without recursing (the cell is empty again,
\* the backtrack counter is one higher and no frame was added) exactly when
\* some inspected empty cell has an empty domain on the board with the value
\* in place; otherwise the value stays and backtrack is called on the board.
C23_ForwardCheckingAbandonsDeadEnds ==
    [][(use_forward_checking /\ Assigns) =>
          \E p \in {<<Top.row, Top.col>>} :
          \E assigned \in {set_value(board, p[1], p[2], Head(Top.values))} :
             IF DeadEnd(assigned, p)
             THEN /\ board' = board
                  /\ board.grid[p[1]][p[2]] = EMPTY_CELL
                  /\ backtracks' = backtracks + 1
                  /\ Len(stack') = Len(stack)
                  /\ stack'[Len(stack')].pc = "loop"
             ELSE /\ board' = assigned
                  /\ backtracks' = backtracks
                  /\ Len(stack') = Len(stack) + 1
                  /\ stack'[Len(stack')].pc = "enter"
                  /\ stack'[Len(stack)].pc = "wait"]_vars

\* the values the frame on top has tried so far for its cell
Tried ==
    {v \in RuleDomain(board, <<Top.row, Top.col>>) :
        Top.values = <<>> \/ v < Head(Top.values)}

\* forward checking has just made the frame on top give up a value: the last
\* value it tried leaves an inspected cell without a value
C23_Witness ==
    /\ use_forward_checking
    /\ stack # <<>>
    /\ Top.pc = "loop"
    /\ result = "none"
    /\ backtracks > 0
    /\ board.grid[Top.row][Top.col] = EMPTY_CELL
    /\ Tried # {}
    /\ DeadEnd(set_value(board, Top.row, Top.col, Greatest(Tried)), <<Top.row, Top.col>>)

---------------------------------------------------------------------------
(* Forward checking against plain search.                                  *)

\* C25: two fresh engines run on identical copies of a board, one without and
\* one with forward checking, finish with the same assignment counter, the
\* same backtrack counter and the same final grid.
C25_ForwardCheckingSavesNothing ==
    Len(runs) >= Twins =>
        /\ runs[1].forward_checking = FALSE
        /\ runs[2].forward_checking = TRUE
        /\ runs[1].selection = runs[2].selection
        /\ runs[1].assignments = runs[2].assignments
        /\ runs[1].backtracks = runs[2].backtracks
        /\ runs[1].grid = runs[2].grid

\* both engines have solved the empty board, each after backing out of
\* assignments
C25_Witness ==
    /\ Len(runs) >= Twins
    /\ runs[2].forward_checking
    /\ EmptyGridGiven
    /\ runs[1].result = "True"
    /\ runs[2].result = "True"
    /\ runs[2].backtracks > 0
    /\ runs[2].grid # puzzle.grid

---------------------------------------------------------------------------
(* The two counters against the cells the engine has filled.               *)

\* the cells the engine has filled: empty on the board as solve received it,
\* filled now
Filled == Cardinality(EmptyCells(puzzle)) - Cardinality(EmptyCells(board))

\* assignments not taken back, beyond the cells filled
Balance == (assignments - backtracks) - Filled

\* C26: backtracks never exceed assignments; from the start of a solve call to
\* its return, at every entry to and return from a frame, the assignments
\* gained less the backtracks gained equal the number of cells the engine has
\* filled, which is none when the call starts.  A call that returns False has
\* filled nothing, so it has raised both counters by the same amount; a call
\* that returns True has filled every initially empty cell, so it has raised
\* assignments by that number more than backtracks.  On a solver fresh before
\* its first call the two counters themselves show it.
C26_CounterAccounting ==
    /\ [](backtracks <= assignments)
    /\ [][(stack = <<>> /\ stack' # <<>>) => (Filled = 0 /\ Filled' = 0)]_vars
    /\ [][(stack # <<>> \/ stack' # <<>>) => Balance' = Balance]_vars
    /\ [][(stack # <<>> /\ stack' = <<>> /\ result' = "False") => Filled' = 0]_vars
    /\ [][(stack # <<>> /\ stack' = <<>> /\ result' = "True")
             => Filled' = Cardinality(EmptyCells(puzzle))]_vars
    /\ []((Len(log) = 1 /\ pc = "load" /\ log[1].outcome = "Failed to solve")
             => assignments = backtracks)
    /\ []((Len(log) = 1 /\ pc = "load" /\ log[1].outcome = "Puzzle solved successfully")
             => assignments = backtracks + Cardinality(EmptyCells(puzzle)))

\* one solver has given up a first puzzle and solved a second one: the first
\* call left as many backtracks as assignments, the second added as many
\* assignments more as the puzzle had empty cells
C26_Witness ==
    /\ Len(log) = 2
    /\ pc = "load"
    /\ log[1].outcome = "Failed to solve"
    /\ log[2].outcome = "Puzzle solved successfully"
    /\ backtracks > 0
    /\ EmptyCells(puzzle) # {}
    /\ is_complete(board)
    /\ assignments = backtracks + Cardinality(EmptyCells(puzzle))
====
